---- MODULE Spec2Model ----
(***************************************************************************)
(* Korman material / texture / layer export pipeline                       *)
(* (korman/exporter/material.py): the _Texture identity class, the         *)
(* MaterialConverter with its pending-texture table, and finalize.         *)
(***************************************************************************)
EXTENDS Integers, Sequences, FiniteSets, TLC

\* ------------------------------------------------------------------ bounds
\* Longest qualifying-slot list of a material exported in a session (Spec).
MaxSlots == 2
\* export_* calls are accepted while fewer than MaxLayers layers exist.
MaxLayers == 2
\* finalize may be called this many times in a session.
MaxFinalize == 2

\* ------------------------------------------------------------- scene data
\* Python's None for string-valued things (image, action, viewpoint object).
None == "None"

\* bpy.data.images of the scene.
Images == {"imgA", "imgB", "imgC"}

\* image.channels
ImageChannels(image) == IF image = "imgC" THEN 3 ELSE 4

\* image.use_alpha
ImageUseAlpha(image) == image \in {"imgA", "imgB", "imgD"}

\* korlib.GLTexture(image).has_alpha : the pixel-level scan of the image
ImageGLHasAlpha(image) == image = "imgA"

\* An image that korlib.GLTexture cannot decode: has_alpha, generate_mipmap
\* and get_level_data raise for it.
BrokenImages == {"imgD"}

ImageDecodeFails(image) == image \in BrokenImages

\* Small square images: 1 x 1, 2 x 2, 4 x 4 and 8 x 8.
SmallImages == {"img1", "img2", "img4", "img8"}

\* image.size as loaded from disk
ImageFileSize(image) ==
    CASE image = "imgA" -> <<256, 256>>
      [] image = "imgB" -> <<300, 200>>
      [] image = "imgD" -> <<5, 3>>
      [] image = "img1" -> <<1, 1>>
      [] image = "img2" -> <<2, 2>>
      [] image = "img4" -> <<4, 4>>
      [] image = "img8" -> <<8, 8>>
      [] OTHER          -> <<4, 2>>

\* hash(image.name): an integer per name; two names may share a hash value
\* modulo the low bit, so that distinct identities can collide.
ImageNameHash(image) ==
    CASE image = "imgA" -> 2
      [] image = "imgB" -> 3
      [] OTHER          -> 6

\* The renderable objects of the scene and the page each lives in.
Objects == {"objA", "objB"}

ObjectPage(bo) == IF bo = "objA" THEN "Page1" ELSE "BuiltIn"

\* ------------------------------------------------------------ _Texture
\* An absent texture argument (texture=None).
NoTexture == [type |-> "NoTexture"]

\* _Texture.__init__(texture, image, use_alpha, force_calc_alpha).
\* use_alpha is <<>> for None, <<b>> for an explicit bool.
TextureInit(texture, image, use_alpha, force_calc_alpha) ==
    LET img   == IF texture # NoTexture /\ image = None THEN texture.image ELSE image
        calc0 == IF texture # NoTexture THEN texture.use_calculate_alpha ELSE FALSE
        mip   == IF texture # NoTexture THEN texture.use_mipmap ELSE FALSE
        calc  == force_calc_alpha \/ calc0
        ua    == IF calc THEN TRUE
                 ELSE IF use_alpha = <<>>
                      THEN (ImageChannels(img) = 4 /\ ImageUseAlpha(img))
                      ELSE use_alpha[1]
    IN  [image |-> img, use_alpha |-> ua, calc_alpha |-> calc, mipmap |-> mip]

\* isinstance(other, _Texture)
IsTexture(other) == DOMAIN other = {"image", "calc_alpha", "mipmap", "use_alpha"}

\* A variant of _update that forgets to merge mipmap.
TextureUpdate_NoMipmap(self, other) ==
    [self EXCEPT !.use_alpha = IF other.use_alpha THEN TRUE ELSE @]

\* _Texture._update(self, other): returns the updated self.
TextureUpdate(self, other) ==
    [self EXCEPT !.use_alpha = IF other.use_alpha THEN TRUE ELSE @,
                 !.mipmap    = IF other.mipmap THEN TRUE ELSE @]

\* A variant of __eq__ that also compares the mipmap flag.
TextureEq_ComparesMipmap(self, other) ==
    IF DOMAIN other # {"image", "calc_alpha", "mipmap", "use_alpha"}
    THEN [other |-> other, self |-> self, result |-> "False"]
    ELSE IF self.image = other.image /\ self.calc_alpha = other.calc_alpha
            /\ self.mipmap = other.mipmap
         THEN [other |-> other, self |-> TextureUpdate(self, other), result |-> "True"]
         ELSE [other |-> other, self |-> self, result |-> "None"]

\* A variant of __eq__ that compares the image only.
TextureEq_IgnoresCalcAlpha(self, other) ==
    IF DOMAIN other # {"image", "calc_alpha", "mipmap", "use_alpha"}
    THEN [other |-> other, self |-> self, result |-> "False"]
    ELSE IF self.image = other.image
         THEN [other |-> other, self |-> TextureUpdate(self, other), result |-> "True"]
         ELSE [other |-> other, self |-> self, result |-> "None"]

\* _Texture.__eq__(self, other): the value returned ("True", "False", or
\* "None" when the function falls off its end) and the state of both objects
\* after the call.
TextureEq(self, other) ==
    IF ~IsTexture(other)
    THEN [other |-> other, self |-> self, result |-> "False"]
    ELSE IF self.image = other.image /\ self.calc_alpha = other.calc_alpha
         THEN [other |-> other, self |-> TextureUpdate(self, other), result |-> "True"]
         ELSE [other |-> other, self |-> self, result |-> "None"]

\* Truthiness of a value returned by __eq__.
IsTrue(result) == result = "True"

\* h ^ hash(b) for a bool b: hash(False) = 0, hash(True) = 1.
XorBool(h, b) == IF b THEN (IF h % 2 = 0 THEN h + 1 ELSE h - 1) ELSE h

\* _Texture.__hash__
TextureHash(self) == XorBool(ImageNameHash(self.image), self.calc_alpha)

\* ------------------------------------------------- the pending table (dict)
\* A dict is a sequence of entries [key, layers] in insertion order.

\* A variant of the comparison of a lookup that calls key.__eq__(stored).
DictCompare_FromKey(stored, key) ==
    [result |-> TextureEq(key, stored).result,
     stored |-> TextureEq(key, stored).other,
     key    |-> TextureEq(key, stored).self]

\* The comparison a lookup makes on an entry whose stored hash equals the
\* hash of the key looked up: stored.__eq__(key), which may update stored.
DictCompare(stored, key) ==
    [result |-> TextureEq(stored, key).result,
     stored |-> TextureEq(stored, key).self,
     key    |-> TextureEq(stored, key).other]

\* The entries a lookup of key matches.
ProbeHits(d, key) ==
    {i \in 1..Len(d) :
        /\ TextureHash(d[i].key) = TextureHash(key)
        /\ IsTrue(DictCompare(d[i].key, key).result)}

\* The lookup ends on entry i, after the comparison r with its key.
ProbeHit(d, i, r) ==
    [key |-> r.key, found |-> TRUE, index |-> i, dict |-> [d EXCEPT ![i].key = r.stored]]

ProbeFirst(d, key, i) == ProbeHit(d, i, DictCompare(d[i].key, key))

ProbeAmong(d, key, hits) ==
    IF hits = {}
    THEN [key |-> key, found |-> FALSE, index |-> 0, dict |-> d]
    ELSE ProbeFirst(d, key, CHOOSE j \in hits : \A k \in hits : j <= k)

\* A lookup of key in d: whether it is found and where, and the dict and the
\* key after the comparisons made.
DictProbe(d, key) == ProbeAmong(d, key, ProbeHits(d, key))

\* self._pending[key].append(layer.key), g the lookup of the key.
StashFound(g, layer) == [g.dict EXCEPT ![g.index].layers = Append(@, layer)]

\* c is the lookup made by "key not in self._pending".
StashProbed(c, layer) ==
    IF ~c.found
    THEN Append(c.dict, [key |-> c.key, layers |-> <<layer>>])
    ELSE StashFound(DictProbe(c.dict, c.key), layer)

\* if key not in self._pending: self._pending[key] = [layer.key,]
\* else: self._pending[key].append(layer.key)
StashTexture(d, key, layer) == StashProbed(DictProbe(d, key), layer)

\* ------------------------------------------------------------ Blender data
\* animation_data is None, or its action is None.  An action is a record
\* [kind |-> "Action", frame_range, fcurves]; a curve is its data path
\* [slot, prop, keyed]: slot is the position in texture_slots that the path
\* names by a "texture_slots[n]" prefix, counted from 1 (0 when the path has
\* no such prefix), prop is the property the path ends in, keyed tells
\* whether the curve holds keyframes.
NoAction == [kind |-> "NoAction"]

\* A texture datablock with every property the exporter reads.
DefaultTexture ==
    [image |-> None, type |-> "IMAGE", use_alpha |-> FALSE,
     use_calculate_alpha |-> FALSE, use_mipmap |-> FALSE, name |-> "Tex",
     invert_alpha |-> FALSE, extension |-> "REPEAT",
     opacity |-> 100, alpha_halo |-> FALSE,
     anim_auto_start |-> TRUE, anim_loop |-> FALSE,
     action |-> NoAction,
     env_source |-> "STATIC", env_mapping |-> "CUBE", env_viewpoint |-> None,
     env_resolution |-> 4, vis_regions |-> <<>>]

\* An empty entry of bm.texture_slots (slot is None).
EmptySlot == [kind |-> "EmptySlot"]

\* A texture slot of a material.
DefaultSlot ==
    [texture |-> DefaultTexture, kind |-> "Slot", use |-> TRUE,
     use_stencil |-> FALSE, blend_type |-> "MIX", uv_layer |-> ""]

\* bo.data.uv_layers of every object.
UVLayers == <<"UVMap", "UVDetail">>

\* bpy.data.objects.get(name) for visibility regions: absent, or present with
\* plasma_modifiers.visregion.enabled as given.
RegionExists(name) == name \in {"rgnOn", "rgnToo", "rgnOff"}

RegionEnabled(name) == name \in {"rgnOn", "rgnToo"}

\* ------------------------------------------------------ engine objects
\* A freshly allocated plLayer (PyHSPlasma defaults).
NewLayer(name, bo) ==
    [bo |-> bo, texture |-> <<>>, name |-> name, opacity |-> <<1, 1>>,
     cls |-> "plLayer", UVWSrc |-> <<"uv", 0>>, transform |-> "identity",
     blendFlags |-> {}, clampFlags |-> {}, ZFlags |-> {}, miscFlags |-> {},
     shadeFlags |-> {},
     ambient |-> "default", preshade |-> "default", runtime |-> "default",
     specular |-> "default",
     underLay |-> 0, ctrls |-> {}, atc |-> <<>>]

\* hsGMatState.kBlendMask: the blend-mode bits.
kBlendMask ==
    {"kBlendAlpha", "kBlendMult", "kBlendAdd", "kBlendAddColorTimesAlpha",
     "kBlendDetail", "kBlendMADD", "kBlendDot3", "kBlendAddSigned",
     "kBlendAddSigned2X"}

\* self._mgr.add_object(cls, name=..., bl=bo) for a layer: the registry
\* appends the object; its key is its position.
AddLayerObject(st, layer) == [st EXCEPT !.layers = Append(@, layer)]

\* MaterialConverter._propagate_material_settings
PropagateMaterialSettings(bm, layer) ==
    [layer EXCEPT
        !.shadeFlags = IF ~bm.use_mist
                       THEN @ \cup {"kShadeNoFog", "kShadeReallyNoFog"} ELSE @,
        !.ambient  = "world.ambient_color",
        !.preshade = bm.diffuse_color,
        !.runtime  = bm.diffuse_color,
        !.specular = bm.specular_color]

\* The alpha test of _test_image_alpha on a cache miss (lines 589-596).
ScanImageAlpha(image) ==
    IF ImageChannels(image) # 4 THEN FALSE
    ELSE IF ~ImageUseAlpha(image) THEN FALSE
    ELSE ImageGLHasAlpha(image)

\* korlib.GLTexture.__enter__: the image is loaded for decoding.
GLEnter(st, image) == [st EXCEPT !.glHeld = @ \cup {image}]

\* A variant of the release that is skipped when the block raised (what a
\* release written after the block, without the with statement, would do).
GLExit_UnlessRaised(st, image) ==
    IF st.exc # "" THEN st ELSE [st EXCEPT !.glHeld = @ \ {image}]

\* korlib.GLTexture.__exit__: the with statement runs it when the block
\* ends, by falling off its end or by an exception.
GLExit(st, image) == [st EXCEPT !.glHeld = @ \ {image}]

\* Line 596: glimage.has_alpha raises for an image that does not decode.
GLHasAlpha(st, image) ==
    IF ImageDecodeFails(image) THEN [st EXCEPT !.exc = "has_alpha failed"] ELSE st

\* Lines 595-596: the with block of the alpha test.
GLScanAlpha(st, image) == GLExit(GLHasAlpha(GLEnter(st, image), image), image)

\* Line 598: the result goes into the cache.
CacheAlpha(st, image, result) ==
    [result |-> result, st |-> [st EXCEPT !.alphatest = @ @@ (image :> result)]]

\* Lines 596-599 after the with block: an exception skips the cache.
ScannedAlpha(st, image) ==
    IF st.exc # "" THEN [result |-> FALSE, st |-> st]
    ELSE CacheAlpha(st, image, ImageGLHasAlpha(image))

\* The log of the calls of _test_image_alpha: the image, and whether the
\* call went to the pixels of the image (line 595).
NoteAlphaCall(st, image, scanned) ==
    [st EXCEPT !.alphaCalls = Append(@, [image |-> image, scanned |-> scanned])]

\* A variant of the alpha test that takes a cached False for a miss.
TestImageAlpha_RescansFalse(st, image) ==
    IF image \in DOMAIN st.alphatest /\ st.alphatest[image]
    THEN [result |-> st.alphatest[image], st |-> NoteAlphaCall(st, image, FALSE)]
    ELSE IF ImageChannels(image) # 4 \/ ~ImageUseAlpha(image)
    THEN CacheAlpha(NoteAlphaCall(st, image, FALSE), image, FALSE)
    ELSE ScannedAlpha(GLScanAlpha(NoteAlphaCall(st, image, TRUE), image), image)

\* MaterialConverter._test_image_alpha: the result and the converter
\* afterwards.
TestImageAlpha(st, image) ==
    IF image \in DOMAIN st.alphatest
    THEN [result |-> st.alphatest[image], st |-> NoteAlphaCall(st, image, FALSE)]
    ELSE IF ImageChannels(image) # 4 \/ ~ImageUseAlpha(image)
    THEN CacheAlpha(NoteAlphaCall(st, image, FALSE), image, FALSE)
    ELSE ScannedAlpha(GLScanAlpha(NoteAlphaCall(st, image, TRUE), image), image)

\* --------------------------------------------------- per-type exporters
\* Lines 416-421: has_alpha and the converter afterwards; the or
\* short-circuits, the image is scanned only when needed.
ImageHasAlpha(st, slot) ==
    IF \/ slot.texture.image = None
       \/ slot.texture.use_calculate_alpha
       \/ slot.use_stencil
    THEN [result |-> TRUE, st |-> st]
    ELSE TestImageAlpha(st, slot.texture.image)

\* Lines 418-420: the warning about an opaque image.
WarnOpaque(st, texture, has_alpha) ==
    IF /\ texture.image # None
       /\ ImageUseAlpha(texture.image) /\ texture.use_alpha
       /\ ~has_alpha
    THEN [st EXCEPT !.warnings = @ \cup {<<"opaque", texture.image>>}]
    ELSE st

\* A variant of the blend flags that inverts alpha whenever the texture
\* asks for it.
ImageBlendFlags_InvertsWhenAsked(slot, has_alpha) ==
    (IF ~slot.use_stencil /\ slot.texture.use_alpha /\ has_alpha
     THEN (IF slot.blend_type = "ADD" THEN {"kBlendAlphaAdd"}
           ELSE IF slot.blend_type = "MULTIPLY" THEN {"kBlendAlphaMult"}
           ELSE {"kBlendAlpha"})
     ELSE {})
    \cup (IF slot.texture.invert_alpha THEN {"kBlendInvertAlpha"} ELSE {})

\* Lines 425-437: the blend flags of a slot that is not a stencil.
ImageBlendFlags(slot, has_alpha) ==
    IF slot.use_stencil THEN {}
    ELSE (IF slot.texture.use_alpha /\ has_alpha
          THEN (IF slot.blend_type = "ADD" THEN {"kBlendAlphaAdd"}
                ELSE IF slot.blend_type = "MULTIPLY" THEN {"kBlendAlphaMult"}
                ELSE {"kBlendAlpha"})
          ELSE {})
         \cup (IF slot.texture.invert_alpha /\ has_alpha
               THEN {"kBlendInvertAlpha"} ELSE {})

\* Lines 424-437: the state flags of the layer.
ApplyImageFlags(st, lid, slot, has_alpha) ==
    [st EXCEPT
        !.layers[lid].blendFlags = @ \cup ImageBlendFlags(slot, has_alpha),
        !.layers[lid].clampFlags =
            @ \cup (IF slot.texture.extension = "CLIP" THEN {"kClampTexture"} ELSE {})]

\* self._mgr.find_object(plDynamicTextMap, name=name, bl=bo)
FindTextMap(st, name, bo) ==
    {i \in 1..Len(st.textmaps) : st.textmaps[i].name = name /\ st.textmaps[i].bo = bo}

CreateTextMap(st, name, bo) ==
    [st EXCEPT !.textmaps =
        Append(@, [bo |-> bo, name |-> name, hasAlpha |-> FALSE,
                   visWidth |-> 0, visHeight |-> 0])]

\* Lines 445-448, dtm the text map found or created.
SetDynamicTextMap(st, lid, texture, dtm) ==
    [st EXCEPT !.textmaps[dtm].hasAlpha = texture.use_alpha,
               !.textmaps[dtm].visWidth = 1024,
               !.textmaps[dtm].visHeight = 1024,
               !.layers[lid].texture = <<"plDynamicTextMap", dtm>>]

\* A variant of find_create_object that never finds.
ExportDynamicTextMap_AlwaysCreates(st, bo, lid, texture, name) ==
    SetDynamicTextMap(CreateTextMap(st, name, bo), lid, texture, Len(st.textmaps) + 1)

\* Lines 443-448: a texture without image becomes a plDynamicTextMap.
ExportDynamicTextMap(st, bo, lid, texture, name) ==
    IF FindTextMap(st, name, bo) = {}
    THEN SetDynamicTextMap(CreateTextMap(st, name, bo), lid, texture,
                           Len(st.textmaps) + 1)
    ELSE SetDynamicTextMap(st, lid, texture,
                           CHOOSE i \in FindTextMap(st, name, bo) : TRUE)

\* Lines 450-456 and 467-472: the layer waits in the pending table under key.
PendTexture(st, key, lid) ==
    [st EXCEPT !.pending = StashTexture(@, key, lid),
               !.refs = Append(@, [key |-> key, layer |-> lid])]

\* Lines 443-456.
ExportImageBitmap(st, bo, lid, slot, has_alpha) ==
    IF slot.texture.image = None
    THEN ExportDynamicTextMap(st, bo, lid, slot.texture, <<st.layers[lid].name, "DynText">>)
    ELSE PendTexture(st, TextureInit(slot.texture, None, <<has_alpha>>, slot.use_stencil), lid)

\* Lines 423-456, given has_alpha.
ExportImageWithAlpha(st, bo, lid, slot, has_alpha) ==
    ExportImageBitmap(
        ApplyImageFlags(WarnOpaque(st, slot.texture, has_alpha), lid, slot, has_alpha),
        bo, lid, slot, has_alpha)

\* MaterialConverter._export_texture_type_image
ExportTextureTypeImage(st, bo, hsgmat, lid, slot) ==
    IF ImageHasAlpha(st, slot).st.exc # "" THEN ImageHasAlpha(st, slot).st
    ELSE ExportImageWithAlpha(ImageHasAlpha(st, slot).st, bo, lid, slot,
                              ImageHasAlpha(st, slot).result)

\* MaterialConverter._export_texture_type_none
ExportTextureTypeNone(st, bo, hsgmat, lid, slot) == st

\* helpers.ensure_power_of_two: the smallest power of two that is >= value.
RECURSIVE PowerOfTwoFrom(_, _)
PowerOfTwoFrom(p, value) == IF p >= value THEN p ELSE PowerOfTwoFrom(2 * p, value)

EnsurePowerOfTwo(value) == PowerOfTwoFrom(1, value)

\* self._mgr.find_object(pl_class, bl=bo, name=name) among the environment
\* maps: the positions of the objects of that type, name and scope.
FindEnvMap(st, pl_class, bo, name) ==
    {i \in 1..Len(st.envmaps) :
        /\ st.envmaps[i].cls = pl_class
        /\ st.envmaps[i].name = name
        /\ st.envmaps[i].bo = bo}

\* A variant of the visibility-region loop that accepts disabled regions.
VisRegionError_IgnoresEnabled(regions) ==
    IF \E i \in 1..Len(regions) : ~RegionExists(regions[i])
    THEN "ExportError" ELSE ""

\* The visibility-region loop of export_dynamic_env: "" when every name
\* resolves to an enabled region, the exception raised otherwise.
VisRegionError(regions) ==
    IF \E i \in 1..Len(regions) :
          ~RegionExists(regions[i]) \/ ~RegionEnabled(regions[i])
    THEN "ExportError" ELSE ""

\* Lines 316-319: the viewpoint of an environment map and the name of its
\* engine object.
EnvViewpoint(bo, texture) ==
    IF texture.env_viewpoint = None THEN bo ELSE texture.env_viewpoint

EnvMapName(bo, texture) == <<EnvViewpoint(bo, texture), "DynEnvMap">>

\* A variant of the reuse that registers the caller with every kind of map.
ReuseEnvMap_AlwaysRegisters(st, bo, lid, pl_class, e) ==
    [st EXCEPT !.envmaps[e].targetNodes = Append(@, bo),
               !.envmaps[e].matLayers = Append(@, lid),
               !.ret = e]

\* Lines 321-326: the environment map e was exported before.
ReuseEnvMap(st, bo, lid, pl_class, e) ==
    IF pl_class = "plDynamicCamMap"
    THEN [st EXCEPT !.envmaps[e].targetNodes = Append(@, bo),
                    !.envmaps[e].matLayers = Append(@, lid),
                    !.ret = e]
    ELSE [st EXCEPT !.ret = e]

\* Lines 335-339: the new environment map object.
NewEnvMap(st, bo, texture, pl_class) ==
    [st EXCEPT !.envmaps =
        Append(@, [bo |-> bo, name |-> EnvMapName(bo, texture), cls |-> pl_class,
                   targetNodes |-> <<>>,
                   matLayers |-> <<>>, refreshRate |-> IF texture.env_source = "ANIMATED"
                                   THEN "0.01" ELSE "0.0",
                   visRegions |-> <<>>, rootNode |-> None,
                   disableTexture |-> 0, position |-> None,
                   width |-> 0, height |-> 0])]

\* Lines 371-375: the layer that stands in for a disabled camera map.
FakeLayer(st, bo, lid, viewpt) ==
    [NewLayer(<<viewpt, "DisabledDynEnvMap">>, bo)
        EXCEPT !.ambient  = st.layers[lid].ambient,
               !.preshade = st.layers[lid].preshade,
               !.runtime  = st.layers[lid].runtime,
               !.specular = st.layers[lid].specular]

\* Lines 360-380 once the fake layer is allocated (it is the last layer).
LinkCamMap(st, bo, lid, viewpt, e) ==
    [st EXCEPT
        !.envmaps[e].rootNode = viewpt,
        !.envmaps[e].targetNodes = Append(@, bo),
        !.envmaps[e].matLayers = Append(@, lid),
        !.envmaps[e].disableTexture = Len(st.layers),
        !.layers[lid].UVWSrc = <<"kUVWPosition">>,
        !.layers[lid].miscFlags = @ \cup {"kMiscCam2Screen", "kMiscPerspProjection"}]

\* Lines 357-380: a plDynamicCamMap.
SetupCamMap(st, bo, lid, viewpt, e) ==
    LinkCamMap(AddLayerObject(st, FakeLayer(st, bo, lid, viewpt)), bo, lid, viewpt, e)

\* Lines 381-390: a plDynamicEnvMap.
SetupEnvMap(st, bo, lid, viewpt, e) ==
    [st EXCEPT
        !.envmaps[e].position = viewpt,
        !.layers[lid].UVWSrc = <<"kUVWReflect">>,
        !.layers[lid].miscFlags = @ \cup {"kMiscUseRefractionXform"}]

\* Lines 393-409: the faces take the power-of-two resolution; return pl_env.
ConfigEnvMap(st, e, eRes) ==
    [st EXCEPT !.envmaps[e].width = eRes,
               !.envmaps[e].height = eRes,
               !.ret = e]

\* Lines 346-409 for the new environment map e.
FillEnvMap(st, bo, lid, texture, pl_class, e) ==
    IF VisRegionError(texture.vis_regions) # ""
    THEN [st EXCEPT !.exc = VisRegionError(texture.vis_regions)]
    ELSE ConfigEnvMap(
            IF pl_class = "plDynamicCamMap"
            THEN SetupCamMap([st EXCEPT !.envmaps[e].visRegions = texture.vis_regions],
                             bo, lid, EnvViewpoint(bo, texture), e)
            ELSE SetupEnvMap([st EXCEPT !.envmaps[e].visRegions = texture.vis_regions],
                             bo, lid, EnvViewpoint(bo, texture), e),
            e, EnsurePowerOfTwo(texture.env_resolution))

\* MaterialConverter.export_dynamic_env: the state afterwards; st.ret is the
\* position of the environment map returned.
ExportDynamicEnv(st, bo, hsgmat, lid, texture, pl_class) ==
    IF FindEnvMap(st, pl_class, bo, EnvMapName(bo, texture)) # {}
    THEN ReuseEnvMap(st, bo, lid, pl_class,
            CHOOSE i \in FindEnvMap(st, pl_class, bo, EnvMapName(bo, texture)) : TRUE)
    ELSE FillEnvMap(NewEnvMap(st, bo, texture, pl_class), bo, lid, texture, pl_class,
                    Len(st.envmaps) + 1)

\* Lines 299-302: the class of the environment map object.
EnvMapClass(st, texture) ==
    IF texture.env_mapping = "PLANE" /\ st.version = "pvMoul"
    THEN "plDynamicCamMap" ELSE "plDynamicEnvMap"

\* Lines 309-310 after export_dynamic_env returned (or raised).
AttachEnvMap(st, lid, pl_class) ==
    IF st.exc # "" THEN st
    ELSE [st EXCEPT
            !.layers[lid].shadeFlags = @ \cup {"kShadeEnvironMap"},
            !.layers[lid].texture = <<pl_class, st.ret>>]

\* MaterialConverter._export_texture_type_environment_map
ExportTextureTypeEnvironmentMap(st, bo, hsgmat, lid, slot) ==
    IF slot.texture.env_source \in {"STATIC", "ANIMATED"}
    THEN AttachEnvMap(
            ExportDynamicEnv(st, bo, hsgmat, lid, slot.texture,
                             EnvMapClass(st, slot.texture)),
            lid, EnvMapClass(st, slot.texture))
    ELSE \* pl_env = None, and pl_env.key raises AttributeError
         [st EXCEPT
             !.warnings = @ \cup {<<"IMAGE EnvironmentMaps", st.layers[lid].name>>},
             !.layers[lid].shadeFlags = @ \cup {"kShadeEnvironMap"},
             !.exc = "AttributeError"]

\* self._tex_exporters[texture.type](bo, hsgmat, layer, slot)
TexExporters == {"ENVIRONMENT_MAP", "IMAGE", "NONE"}

ExportTextureType(st, bo, hsgmat, lid, slot) ==
    CASE slot.texture.type = "ENVIRONMENT_MAP" ->
            ExportTextureTypeEnvironmentMap(st, bo, hsgmat, lid, slot)
      [] slot.texture.type = "IMAGE" ->
            ExportTextureTypeImage(st, bo, hsgmat, lid, slot)
      [] slot.texture.type = "NONE" ->
            ExportTextureTypeNone(st, bo, hsgmat, lid, slot)

\* ------------------------------------------------------- layer animations
\* bpy.context.scene.render.fps
SceneFps == 30

\* harvest_fcurves(bl_id, collection, data_path): the curves it adds.
HarvestFCurves(action, slotIndex) ==
    IF action = NoAction THEN <<>>
    ELSE IF slotIndex = 0 THEN action.fcurves
    ELSE SelectSeq(action.fcurves, LAMBDA c : c.slot = slotIndex)

\* Lines 278-279: the curves whose data path is "plasma_layer.opacity".
OpacityCurves(fcurves) ==
    {i \in 1..Len(fcurves) :
        fcurves[i].slot = 0 /\ fcurves[i].prop = "plasma_layer.opacity"}

\* Does the loop of _export_layer_opacity_animation find a curve (and set
\* kBlendAlpha on the base layer)?
HasOpacityCurve(fcurves) == OpacityCurves(fcurves) # {}

\* animation.make_scalar_leaf_controller(fcurve): a controller, or None for
\* a curve that holds no keyframes.
MakeScalarLeafController(fcurve) == fcurve.keyed

\* animation.make_matrix44_controller(pos_fcurves, scale_fcurves, ...): a
\* controller, or None when no curve given holds keyframes.
MakeMatrix44Controller(pos_fcurves, scale_fcurves) ==
    \E i \in 1..Len(pos_fcurves \o scale_fcurves) : (pos_fcurves \o scale_fcurves)[i].keyed

\* MaterialConverter._export_layer_opacity_animation: does it return a
\* controller?  The first opacity curve decides.
OpacityCtrl(fcurves) ==
    /\ HasOpacityCurve(fcurves)
    /\ MakeScalarLeafController(
          fcurves[CHOOSE i \in OpacityCurves(fcurves) :
                     \A j \in OpacityCurves(fcurves) : i <= j])

\* MaterialConverter._export_layer_transform_animation: does it return a
\* controller?
TransformCtrl(fcurves) ==
    MakeMatrix44Controller(SelectSeq(fcurves, LAMBDA c : c.prop = "offset"),
                           SelectSeq(fcurves, LAMBDA c : c.prop = "scale"))

\* Lines 232-234: the curves gathered from the material and the texture.
LayerFCurves(bm, tex_slot, idx) ==
    HarvestFCurves(bm.action, idx) \o HarvestFCurves(tex_slot.texture.action, 0)

\* Line 280: the opacity converter forces alpha blending on the base layer.
BlendAnimatedOpacity(st, base, fcurves) ==
    IF HasOpacityCurve(fcurves)
    THEN [st EXCEPT !.layers[base].blendFlags = @ \cup {"kBlendAlpha"}]
    ELSE st

\* Lines 257-260: the action that gives the animation its frame range.
AnimTiming(bm, texture) ==
    IF texture.action # NoAction THEN texture.action.frame_range
    ELSE bm.action.frame_range

\* Lines 246-271: the plLayerAnimation on top of the base layer.
LayerAnimation(name, bo, bm, texture, base, fcurves) ==
    [NewLayer(<<name, "LayerAnim">>, bo) EXCEPT
        !.cls = "plLayerAnimation",
        !.ctrls = (IF OpacityCtrl(fcurves) THEN {"opacityCtl"} ELSE {})
                  \cup (IF TransformCtrl(fcurves) THEN {"transformCtl"} ELSE {}),
        !.underLay = base,
        !.atc = <<[begin |-> <<AnimTiming(bm, texture)[1], SceneFps>>,
                   end |-> <<AnimTiming(bm, texture)[2], SceneFps>>,
                   flags |-> (IF ~texture.anim_auto_start THEN {"kStopped"} ELSE {})
                             \cup (IF texture.anim_loop THEN {"kLoop"} ELSE {})]>>]

\* Lines 243-275, given the curves gathered.
ChainLayerAnimation(st, bo, bm, tex_slot, base, fcurves) ==
    IF ~OpacityCtrl(fcurves) /\ ~TransformCtrl(fcurves)
    THEN [BlendAnimatedOpacity(st, base, fcurves) EXCEPT !.ret = base]
    ELSE [AddLayerObject(BlendAnimatedOpacity(st, base, fcurves),
                         LayerAnimation(st.layers[base].name, bo, bm, tex_slot.texture,
                                        base, fcurves))
            EXCEPT !.ret = Len(st.layers) + 1]

\* MaterialConverter._export_layer_animations: the state afterwards; st.ret
\* is the layer to add to the material (the base layer or its wrapper).
ExportLayerAnimations(st, bo, bm, tex_slot, idx, hsgmat, base) ==
    IF LayerFCurves(bm, tex_slot, idx) = <<>> THEN [st EXCEPT !.ret = base]
    ELSE ChainLayerAnimation(st, bo, bm, tex_slot, base, LayerFCurves(bm, tex_slot, idx))

\* ------------------------------------------------------ per-slot export
\* The index of the first UV layer named like the slot's, 0 if there is none
\* (the for/else leaves layer.UVWSrc alone).
UVChannel(slot) ==
    LET hits == {i \in 1..Len(UVLayers) : UVLayers[i] = slot.uv_layer}
    IN  IF hits = {} THEN <<>> ELSE <<(CHOOSE i \in hits : \A j \in hits : i <= j) - 1>>

\* Lines 147-163: the layer allocated for a slot, with the material settings
\* propagated, its UV channel and its transform.
NewSlotLayer(bo, bm, slot) ==
    [PropagateMaterialSettings(bm, NewLayer(<<bm.name, slot.texture.name>>, bo))
        EXCEPT !.UVWSrc = IF UVChannel(slot) = <<>> THEN @
                          ELSE <<"uv", UVChannel(slot)[1]>>,
               !.transform = "slot.offset,slot.scale"]

\* Lines 166-172 and 190-194: the stencil flags or the blend-type flags.
SlotStateFlags(layer, slot) ==
    IF slot.use_stencil
    THEN [layer EXCEPT
            !.blendFlags = @ \cup {"kBlendAlpha", "kBlendAlphaMult", "kBlendNoTexColor"},
            !.clampFlags = IF slot.texture.type = "BLEND"
                           THEN @ \cup {"kClampTexture"} ELSE @,
            !.ZFlags = @ \cup {"kZNoZWrite"},
            !.ambient = "white"]
    ELSE [layer EXCEPT
            !.blendFlags = IF slot.blend_type = "ADD"
                           THEN @ \cup {"kBlendAddColorTimesAlpha"}
                           ELSE IF slot.blend_type = "MULTIPLY"
                           THEN @ \cup {"kBlendMult"} ELSE @]

\* The layer of a slot as it is before the stencil recursion.
SlotLayer(bo, bm, slot) == SlotStateFlags(NewSlotLayer(bo, bm, slot), slot)

\* A variant of the retroactive flagging that forces alpha blending always.
FlagPrevLayer_AlwaysAlpha(st, hsgmat) ==
    LET prev == st.materials[hsgmat].layers[Len(st.materials[hsgmat].layers)]
    IN  [st EXCEPT
           !.layers[prev].miscFlags = @ \cup {"kMiscBindNext", "kMiscRestartPassHere"},
           !.layers[prev].blendFlags = @ \cup {"kBlendAlpha"}]

\* Lines 184-188: flag the layer the recursion appended last as binding with
\* the stencil.
FlagPrevLayer(st, hsgmat) ==
    LET prev == st.materials[hsgmat].layers[Len(st.materials[hsgmat].layers)]
    IN  [st EXCEPT
           !.layers[prev].miscFlags = @ \cup {"kMiscBindNext", "kMiscRestartPassHere"},
           !.layers[prev].blendFlags =
               IF @ \cap kBlendMask = {} THEN @ \cup {"kBlendAlpha"} ELSE @]

\* A variant of the layer properties in which the opacity rule never forces
\* alpha blending.
ApplyLayerProps_NoAlpha(st, lid, texture) ==
    [st EXCEPT
       !.layers[lid].opacity = <<texture.opacity, 100>>,
       !.layers[lid].blendFlags =
           @ \cup (IF texture.alpha_halo THEN {"kBlendAlphaTestHigh"} ELSE {})]

\* A variant of the layer properties that ignores the alpha-halo flag.
ApplyLayerProps_NoHalo(st, lid, texture) ==
    [st EXCEPT
       !.layers[lid].opacity = <<texture.opacity, 100>>,
       !.layers[lid].blendFlags =
           IF texture.opacity < 100 THEN @ \cup {"kBlendAlpha"} ELSE @]

\* Lines 198-204: the custom layer properties of the texture.
ApplyLayerProps(st, lid, texture) ==
    [st EXCEPT
       !.layers[lid].opacity = <<texture.opacity, 100>>,
       !.layers[lid].blendFlags =
           (IF texture.opacity < 100 THEN @ \cup {"kBlendAlpha"} ELSE @)
           \cup (IF texture.alpha_halo THEN {"kBlendAlphaTestHigh"} ELSE {})]

RECURSIVE ExportTextureSlot(_, _, _, _, _, _)

\* Line 167: a stencil marks its material as needing a blend channel.
MarkStencil(st, hsgmat, slot) ==
    IF slot.use_stencil
    THEN [st EXCEPT !.materials[hsgmat].compFlags = @ \cup {"kCompNeedsBlendChannel"}]
    ELSE st

\* Lines 212-213: add the layer that _export_layer_animations returned.
AddSlotLayer(st, hsgmat, slot) ==
    [st EXCEPT !.materials[hsgmat].layers = Append(@, st.ret),
               !.ret = IF slot.use_stencil THEN 2 ELSE 1]

\* Lines 210-213, unless the texture exporter raised.
AnimateSlot(st, bo, bm, hsgmat, slot, idx, lid) ==
    IF st.exc # "" THEN st
    ELSE AddSlotLayer(ExportLayerAnimations(st, bo, bm, slot, idx, hsgmat, lid),
                      hsgmat, slot)

\* Lines 183-213, unless the recursion for the following slot raised.
FinishSlot(st, bo, bm, hsgmat, slot, idx, lid) ==
    IF st.exc # "" THEN st
    ELSE AnimateSlot(
            ExportTextureType(
                ApplyLayerProps(IF slot.use_stencil THEN FlagPrevLayer(st, hsgmat) ELSE st,
                                lid, slot.texture),
                bo, hsgmat, lid, slot),
            bo, bm, hsgmat, slot, idx, lid)

\* Lines 165-213 for the layer lid allocated for the slot.
ExportSlotLayer(st, bo, bm, hsgmat, slots, idx, lid) ==
    IF slots[idx].use_stencil /\ Len(slots) = idx
    THEN [st EXCEPT !.exc = "ExportError"]
    ELSE FinishSlot(
            IF slots[idx].use_stencil
            THEN ExportTextureSlot(st, bo, bm, hsgmat, slots, idx + 1)
            ELSE st,
            bo, bm, hsgmat, slots[idx], idx, lid)

\* MaterialConverter._export_texture_slot: the state afterwards; st.ret is
\* num_exported, st.exc the exception that left the call ("" if none).
ExportTextureSlot(st, bo, bm, hsgmat, slots, idx) ==
    ExportSlotLayer(
        MarkStencil(AddLayerObject(st, SlotLayer(bo, bm, slots[idx])), hsgmat, slots[idx]),
        bo, bm, hsgmat, slots, idx, Len(st.layers) + 1)

\* ------------------------------------------------------- material export
\* A variant of the slot filter that forgets slot.use.
Qualifies_IgnoresUse(slot) ==
    /\ slot # EmptySlot
    /\ slot.texture # NoTexture
    /\ slot.texture.type \in TexExporters

\* The slot filter of export_material (lines 100-101).
Qualifies(slot) ==
    /\ slot # EmptySlot
    /\ slot.use
    /\ slot.texture # NoTexture
    /\ slot.texture.type \in TexExporters

RECURSIVE ExportSlotsFrom(_, _, _, _, _, _)

\* Line 107: i += num_exported, and the loop goes on unless the call raised.
AdvanceSlots(st, bo, bm, hsgmat, slots, i) ==
    IF st.exc # "" THEN st
    ELSE ExportSlotsFrom(st, bo, bm, hsgmat, slots, i + st.ret)

\* The while loop of export_material (lines 105-107), from cursor i.
ExportSlotsFrom(st, bo, bm, hsgmat, slots, i) ==
    IF i > Len(slots) THEN st
    ELSE AdvanceSlots(ExportTextureSlot(st, bo, bm, hsgmat, slots, i),
                      bo, bm, hsgmat, slots, i)

\* self._mgr.add_object(hsGMaterial, name=..., bl=bo); a name is the tuple of
\* the parts it is formatted from.
AddMaterialObject(st, name, bo) ==
    [st EXCEPT !.materials =
        Append(@, [bo |-> bo, layers |-> <<>>, name |-> name, compFlags |-> {}])]

\* A variant of export_material without the default layer.
EnsureDefaultLayer_Skipped(st, bo, bm, hsgmat) == st

\* Lines 111-114: a material without layers gets a default layer.
EnsureDefaultLayer(st, bo, bm, hsgmat) ==
    IF st.materials[hsgmat].layers = <<>>
    THEN [AddLayerObject(st,
              PropagateMaterialSettings(bm, NewLayer(<<bm.name, "AutoLayer">>, bo)))
            EXCEPT !.materials[hsgmat].layers = Append(@, Len(st.layers) + 1)]
    ELSE st

\* A variant of the cache that puts the newest material first.
CacheMaterial_Prepends(st, bo, hsgmat) ==
    [st EXCEPT !.obj2mat = IF bo \in DOMAIN @
                           THEN [@ EXCEPT ![bo] = <<hsgmat>> \o @]
                           ELSE @ @@ (bo :> <<hsgmat>>)]

\* Lines 117-120: cache the material under its object.
CacheMaterial(st, bo, hsgmat) ==
    [st EXCEPT !.obj2mat = IF bo \in DOMAIN @
                           THEN [@ EXCEPT ![bo] = Append(@, hsgmat)]
                           ELSE @ @@ (bo :> <<hsgmat>>)]

\* A variant of export_material that caches the material even when a slot
\* raised.
FinishMaterial_AlwaysCaches(st, bo, bm, hsgmat) ==
    IF st.exc # "" THEN [CacheMaterial(st, bo, hsgmat) EXCEPT !.ret = 0]
    ELSE [CacheMaterial(EnsureDefaultLayer(st, bo, bm, hsgmat), bo, hsgmat)
            EXCEPT !.ret = hsgmat]

\* Lines 109-123, which an exception of the loop skips.
FinishMaterial(st, bo, bm, hsgmat) ==
    IF st.exc # "" THEN [st EXCEPT !.ret = 0]
    ELSE [CacheMaterial(EnsureDefaultLayer(st, bo, bm, hsgmat), bo, hsgmat)
            EXCEPT !.ret = hsgmat]

\* MaterialConverter.export_material: the state afterwards; st.ret is the
\* key of the material returned (0 when an exception left the call).
ExportMaterial(st, bo, bm) ==
    FinishMaterial(
        ExportSlotsFrom(AddMaterialObject(st, <<bm.name>>, bo), bo, bm,
                        Len(st.materials) + 1, SelectSeq(bm.texture_slots, Qualifies), 1),
        bo, bm, Len(st.materials) + 1)

\* A variant of the waveset export that goes through the texture slots.
ExportWavesetMaterial_VisitsSlots(st, bo, bm) == ExportMaterial(st, bo, bm)

\* MaterialConverter.export_waveset_material
ExportWavesetMaterial(st, bo, bm) ==
    [AddLayerObject(
        AddMaterialObject(st, <<bm.name, "WaveSet7">>, bo),
        [PropagateMaterialSettings(bm, NewLayer(<<bm.name, "WaveSet7">>, bo))
            EXCEPT !.blendFlags = @ \cup {"kBlendAlpha"}])
      EXCEPT !.materials[Len(st.materials) + 1].layers = Append(@, Len(st.layers) + 1),
             !.ret = Len(st.materials) + 1]

\* The lightmap modifier's layer (render.py) handed to export_prepared_layer.
PreparedLayer(bo) ==
    [NewLayer(<<bo, "LIGHTMAPGEN">>, bo) EXCEPT
        !.ambient = "white", !.preshade = "grey", !.runtime = "grey",
        !.blendFlags = @ \cup {"kBlendMult"},
        !.clampFlags = @ \cup {"kClampTextureU", "kClampTextureV"},
        !.ZFlags = @ \cup {"kZNoZWrite"},
        !.miscFlags = @ \cup {"kMiscLightMap"}]

\* MaterialConverter.export_prepared_layer, on a layer its caller allocated.
ExportPreparedLayer(st, bo, image) ==
    PendTexture(AddLayerObject(st, PreparedLayer(bo)),
                TextureInit(NoTexture, image, <<>>, FALSE),
                Len(st.layers) + 1)

\* ---------------------------------------------------------------- finalize
\* floor(log2(n)) for n >= 1
RECURSIVE FloorLog2(_)
FloorLog2(n) == IF n <= 1 THEN 0 ELSE 1 + FloorLog2(n \div 2)

Max(a, b) == IF a >= b THEN a ELSE b

\* _Texture.__str__
TextureStr(key) ==
    <<IF key.calc_alpha THEN "ALPHAGEN_" ELSE "", key.image,
      IF key.mipmap THEN ".dds" ELSE ".bmp">>

\* mgr.get_textures_page(layer): the layer's own page when that page keeps
\* its textures, the shared Textures page otherwise.
GetTexturesPage(layer) ==
    IF ObjectPage(layer.bo) = "BuiltIn" THEN "BuiltIn" ELSE "Textures"

\* A variant of the level count without the workaround of line 505.
NumLevels_NoWorkaround(key, eWidth, eHeight) ==
    IF key.mipmap THEN FloorLog2(Max(eWidth, eHeight)) + 1 ELSE 1

\* Lines 488-505: the number of mip levels.
NumLevels(key, eWidth, eHeight) ==
    LET raw == IF key.mipmap THEN FloorLog2(Max(eWidth, eHeight)) + 1 ELSE 1
    IN  IF key.mipmap THEN Max(raw - 2, 2) ELSE raw

\* A variant of the page bucketing that never reuses a page's bitmap.
PokeLayer_NeverReuses(acc, lid, proto) ==
    LET st   == acc.st
        page == ObjectPage(st.layers[lid].bo)
        st1  == [st EXCEPT !.bitmaps = Append(@, [proto EXCEPT !.page = page])]
    IN  [st |-> [st1 EXCEPT !.layers[lid].texture = <<"plMipmap", Len(st1.bitmaps)>>],
         pages |-> acc.pages]

\* Lines 535-549, one consuming layer: acc.st is the state, acc.pages maps
\* the pages seen so far to the bitmap made for them.
PokeLayer(acc, lid, proto) ==
    LET st   == acc.st
        page == GetTexturesPage(st.layers[lid])
    IN  IF page \notin DOMAIN acc.pages
        THEN LET st1 == [st EXCEPT !.bitmaps = Append(@, [proto EXCEPT !.page = page])]
                 mipmap == Len(st1.bitmaps)
             IN  [st |-> [st1 EXCEPT !.layers[lid].texture = <<"plMipmap", mipmap>>],
                  pages |-> acc.pages @@ (page :> mipmap)]
        ELSE [st |-> [st EXCEPT !.layers[lid].texture = <<"plMipmap", acc.pages[page]>>],
              pages |-> acc.pages]

\* Lines 530-549: the loop over the consuming layers, from position i on.
RECURSIVE PokeLayers(_, _, _, _)
PokeLayers(acc, consumers, i, proto) ==
    IF i > Len(consumers) THEN acc.st
    ELSE PokeLayers(PokeLayer(acc, consumers[i], proto), consumers, i + 1, proto)

\* Lines 509-523: the block under the with statement; generate_mipmap
\* raises for an image that does not decode, and get_level_data does when
\* no mip levels were asked for.
GLReadLevels(st, key) ==
    IF ~ImageDecodeFails(key.image) THEN st
    ELSE [st EXCEPT !.exc = IF key.mipmap THEN "generate_mipmap failed"
                            ELSE "get_level_data failed"]

\* Lines 507-523: helper = korlib.GLTexture(image); with helper as glimage.
GLDecode(st, key) == GLExit(GLReadLevels(GLEnter(st, key.image), key), key.image)

\* MaterialConverter._resize_image: image.scale(width, height).
ResizeImage(st, image, width, height) ==
    [st EXCEPT !.imageSize[image] = <<width, height>>]

\* A variant of finalize that does not reload the image.
ReloadImage_Skipped(st, image) == st

\* Line 526: image.reload() reads the image from its file again.
ReloadImage(st, image) == [st EXCEPT !.imageSize[image] = ImageFileSize(image)]

\* The body of the finalize loop for one pending entry (lines 476-549).
FinalizeEntry(st, entry) ==
    LET key     == entry.key
        image   == key.image
        oWidth  == st.imageSize[image][1]
        oHeight == st.imageSize[image][2]
        eWidth  == EnsurePowerOfTwo(oWidth)
        eHeight == EnsurePowerOfTwo(oHeight)
        \* _resize_image
        st1 == IF eWidth # oWidth \/ eHeight # oHeight
               THEN ResizeImage(st, image, eWidth, eHeight)
               ELSE st
        numLevels   == NumLevels(key, eWidth, eHeight)
        compression == IF key.mipmap THEN "kDirectXCompression" ELSE "kUncompressed"
        dxt  == IF key.use_alpha \/ key.calc_alpha THEN "kDXT5" ELSE "kDXT1"
        fmt  == compression = "kUncompressed"
        data == [i \in 1..numLevels |->
                    [image |-> image, calc_alpha |-> key.calc_alpha, size |-> st1.imageSize[image],
                     level |-> i - 1, bgra |-> fmt]]
        \* image.reload()
        st2 == ReloadImage(GLDecode(st1, key), image)
        proto == [name |-> TextureStr(key), width |-> eWidth, height |-> eHeight,
                  page |-> "", numLevels |-> numLevels,
                  data |-> data, compType |-> compression, dxtLevel |-> dxt]
    IN  IF GLDecode(st1, key).exc # "" THEN GLDecode(st1, key)
        ELSE PokeLayers([st |-> st2, pages |-> <<>>], entry.layers, 1, proto)

\* MaterialConverter.finalize: the loop over self._pending.items(), from
\* entry i on.
RECURSIVE FinalizeFrom(_, _)
FinalizeFrom(st, i) ==
    IF i > Len(st.pending) \/ st.exc # "" THEN st
    ELSE FinalizeFrom(FinalizeEntry(st, st.pending[i]), i + 1)

Finalize(st) == FinalizeFrom(st, 1)

\* -------------------------------------------------------------------- state
VARIABLES
    layers,      \* the registry's layer objects; a layer's key is its position
    materials,   \* the registry's hsGMaterial objects
    textmaps,    \* the registry's plDynamicTextMap objects
    envmaps,     \* the registry's dynamic environment / camera maps
    bitmaps,     \* the plMipmap objects finalize added to pages
    obj2mat,     \* MaterialConverter._obj2mat
    pending,     \* MaterialConverter._pending
    alphatest,   \* MaterialConverter._alphatest
    alphaCalls,  \* every call of _test_image_alpha so far, in order
    warnings,    \* what the report sink was told
    imageSize,   \* image.size of every image as it is in memory
    glHeld,      \* the images a korlib.GLTexture holds loaded for decoding
    version,     \* mgr.getVer()
    status,      \* "converting", "finalized", or "raised" once an exception left a call
    finalized,   \* how many times finalize has returned
    lastCall,    \* the last call made on the converter and what it returned
    refs,        \* every _Texture built for the pending table, in order, with its layer
    tStored,     \* comparison harness: the _Texture a table already holds
    tKey,        \* comparison harness: the newly built _Texture looked up
    tStoredAfter, \* the stored object after the comparison
    tKeyAfter,   \* the new object after the comparison
    tResult,     \* what the comparison returned ("unset" before it ran)
    uiState,     \* Blender's UI: selection, active object, scene layers, frame, mode
    export_active, \* the export_active property of the age
    opResult     \* what the last ExportOperator.execute did and returned

vars == <<layers, materials, textmaps, envmaps, bitmaps, obj2mat, pending, alphatest,
          alphaCalls, warnings, imageSize, glHeld, version, status, finalized, lastCall, refs,
          tStored, tKey, tStoredAfter, tKeyAfter, tResult,
          uiState, export_active, opResult>>

convVars == <<layers, materials, textmaps, envmaps, bitmaps, obj2mat, pending,
              alphatest, alphaCalls, warnings, imageSize, glHeld, version, status,
              finalized, lastCall, refs>>

texVars == <<tStored, tKey, tStoredAfter, tKeyAfter, tResult>>

opVars == <<uiState, export_active, opResult>>

\* The converter and the registry as one value, for the operators above.
State ==
    [layers |-> layers, glHeld |-> glHeld, exc |-> "",
     alphatest |-> alphatest, alphaCalls |-> alphaCalls, warnings |-> warnings,
     textmaps |-> textmaps, pending |-> pending, refs |-> refs,
     envmaps |-> envmaps, ret |-> 0, version |-> version,
     materials |-> materials, obj2mat |-> obj2mat, bitmaps |-> bitmaps,
     imageSize |-> imageSize]

\* The next state is st; call describes the call that produced it.
Becomes(st, call) ==
    /\ layers' = st.layers
    /\ materials' = st.materials
    /\ textmaps' = st.textmaps
    /\ envmaps' = st.envmaps
    /\ bitmaps' = st.bitmaps
    /\ obj2mat' = st.obj2mat
    /\ pending' = st.pending
    /\ alphatest' = st.alphatest
    /\ alphaCalls' = st.alphaCalls
    /\ warnings' = st.warnings
    /\ imageSize' = st.imageSize
    /\ glHeld' = st.glHeld
    /\ refs' = st.refs
    /\ lastCall' = [call EXCEPT !.ret = st.ret, !.exc = st.exc]
    /\ UNCHANGED version

NoCall ==
    [image |-> None, bo |-> None, bm |-> None, exc |-> "", ret |-> 0, op |-> "none",
     mats |-> <<>>]

\* MaterialConverter.__init__, in a session exporting for engine version v.
InitConverter(v) ==
    /\ layers = <<>>
    /\ materials = <<>>
    /\ textmaps = <<>>
    /\ envmaps = <<>>
    /\ bitmaps = <<>>
    /\ obj2mat = <<>>
    /\ pending = <<>>
    /\ alphatest = <<>>
    /\ alphaCalls = <<>>
    /\ warnings = {}
    /\ imageSize = [i \in Images \cup BrokenImages \cup SmallImages |-> ImageFileSize(i)]
    /\ glHeld = {}
    /\ version = v
    /\ status = "converting"
    /\ finalized = 0
    /\ lastCall = NoCall
    /\ refs = <<>>

\* ------------------------------------------------------------------ inputs
\* All sequences over S of length at most n.
SeqsUpTo(S, n) == UNION {[1..k -> S] : k \in 0..n}

\* A material datablock.
Material(use_mist, slots, action) ==
    [name |-> "Mat", action |-> action, use_mist |-> use_mist,
     diffuse_color |-> "diffuse_color", specular_color |-> "specular_color", texture_slots |-> slots]

\* An image texture in a slot: plain, with calculated alpha, or as a stencil.
ImageSlot(image, mipmap, how) ==
    [DefaultSlot EXCEPT
        !.texture = [DefaultTexture EXCEPT
                        !.image = image, !.use_mipmap = mipmap,
                        !.use_calculate_alpha = (how = "calc")],
        !.use_stencil = (how = "stencil")]

SessionSlots ==
    {ImageSlot(image, mipmap, how) :
        image \in Images, mipmap \in BOOLEAN,
        how \in {"plain", "calc", "stencil"}}

\* The materials a session (Spec) exports.
SessionMaterials ==
    {Material(TRUE, slots, NoAction) : slots \in SeqsUpTo(SessionSlots, MaxSlots)}

\* The materials a session exports for wave sets: with and without mist,
\* without slots and with an image slot.
WavesetMaterials ==
    {Material(use_mist, slots, NoAction) :
        use_mist \in BOOLEAN, slots \in {<<>>, <<ImageSlot("imgA", TRUE, "calc")>>}}

\* ----------------------------------------------------------------- actions
CanExport == status = "converting" /\ Len(layers) < MaxLayers

\* What a call of export_material(bo, bm) does to the session.
ExportMaterialStep(bo, bm) ==
    /\ LET st == ExportMaterial(State, bo, bm)
       IN  /\ Becomes(st, [NoCall EXCEPT !.op = "export_material", !.bo = bo, !.bm = bm])
           /\ status' = IF st.exc # "" THEN "raised" ELSE status
    /\ UNCHANGED <<finalized, texVars, opVars>>

\* converter.export_material(bo, bm)
ExportMaterialCall(bo, bm) == CanExport /\ ExportMaterialStep(bo, bm)

\* converter.export_waveset_material(bo, bm)
ExportWavesetMaterialCall(bo, bm) ==
    /\ CanExport
    /\ Becomes(ExportWavesetMaterial(State, bo, bm),
               [NoCall EXCEPT !.op = "export_waveset_material", !.bo = bo, !.bm = bm])
    /\ UNCHANGED <<status, finalized, texVars, opVars>>

\* converter.export_prepared_layer(layer, image), layer freshly allocated
\* for bo by the caller
ExportPreparedLayerCall(bo, image) ==
    /\ CanExport
    /\ Becomes(ExportPreparedLayer(State, bo, image),
               [NoCall EXCEPT !.op = "export_prepared_layer", !.bo = bo, !.image = image])
    /\ UNCHANGED <<status, finalized, texVars, opVars>>

\* MaterialConverter.get_materials: self._obj2mat[bo], a KeyError when the
\* dict has no entry for bo; st.ret is the list returned.
GetMaterials(st, bo) ==
    IF bo \in DOMAIN st.obj2mat THEN [st EXCEPT !.ret = st.obj2mat[bo]]
    ELSE [st EXCEPT !.ret = <<>>, !.exc = "KeyError"]

\* converter.get_materials(bo): the converter is left as it is
GetMaterialsCall(bo) ==
    /\ status = "converting"
    /\ lastCall' = [NoCall EXCEPT !.op = "get_materials", !.bo = bo,
                                  !.exc = GetMaterials(State, bo).exc,
                                  !.mats = GetMaterials(State, bo).ret]
    /\ UNCHANGED <<layers, materials, textmaps, envmaps, bitmaps, obj2mat, pending,
                   alphatest, alphaCalls, warnings, imageSize, glHeld, version, status,
                   finalized, refs, texVars, opVars>>

\* converter.finalize()
FinalizeCall ==
    /\ status \in {"converting", "finalized"}
    /\ finalized < MaxFinalize
    /\ Becomes(Finalize(State), [NoCall EXCEPT !.op = "finalize"])
    /\ status' = IF Finalize(State).exc # "" THEN "raised" ELSE "finalized"
    /\ finalized' = IF Finalize(State).exc # "" THEN finalized ELSE finalized + 1
    /\ UNCHANGED <<texVars, opVars>>

\* The comparison harness is idle in a session.
TexIdle ==
    /\ tStored = NoTexture /\ tKey = NoTexture
    /\ tStoredAfter = NoTexture /\ tKeyAfter = NoTexture
    /\ tResult = "unset"

\* The UI as it is while no export has been invoked.
IdleUi ==
    [selection |-> {}, active |-> None, scene_layers |-> "layer1", frame |-> 1,
     mode |-> "OBJECT"]

NoResult ==
    [result |-> "none", exc |-> "", op |-> "none", entered |-> FALSE,
     reports |-> <<>>, error |-> ""]

\* The operator has not been invoked.
OpIdle ==
    /\ uiState = IdleUi
    /\ export_active = FALSE
    /\ opResult = NoResult

Init == InitConverter("pvMoul") /\ TexIdle /\ OpIdle

Next ==
    \/ \E bo \in Objects, bm \in SessionMaterials : ExportMaterialCall(bo, bm)
    \/ \E bo \in Objects, bm \in WavesetMaterials : ExportWavesetMaterialCall(bo, bm)
    \/ \E bo \in Objects, image \in Images : ExportPreparedLayerCall(bo, image)
    \/ FinalizeCall

Spec == Init /\ [][Next]_vars

\* ------------------------------------------- one export on a fresh converter
\* Longest texture_slots list of a material in SlotSpec.
MaxChain == 3

\* An action on a texture whose curve animates prop.
TexAction(prop) ==
    [kind |-> "Action", fcurves |-> <<[slot |-> 0, prop |-> prop, keyed |-> TRUE]>>,
     frame_range |-> <<1, 60>>]

\* The texture datablocks of the scene of SlotSpec.
SlotTextures ==
    {[DefaultTexture EXCEPT !.type = "NONE"],
     [DefaultTexture EXCEPT !.type = "NONE", !.alpha_halo = TRUE],
     [DefaultTexture EXCEPT !.type = "NONE", !.action = TexAction("offset")],
     [DefaultTexture EXCEPT !.type = "NONE", !.opacity = 50],
     [DefaultTexture EXCEPT !.type = "NONE", !.alpha_halo = TRUE,
                            !.action = TexAction("plasma_layer.opacity")],
     [DefaultTexture EXCEPT !.type = "IMAGE", !.image = "imgA", !.use_alpha = TRUE,
                            !.alpha_halo = TRUE],
     [DefaultTexture EXCEPT !.type = "ENVIRONMENT_MAP", !.env_source = "STATIC"],
     [DefaultTexture EXCEPT !.type = "ENVIRONMENT_MAP", !.env_source = "IMAGE_FILE"]}

\* Entries of texture_slots that export_material filters out.
UnusedSlots ==
    {EmptySlot,
     [DefaultSlot EXCEPT !.use = FALSE],
     [DefaultSlot EXCEPT !.texture = NoTexture],
     [DefaultSlot EXCEPT !.texture = [DefaultTexture EXCEPT !.type = "BLEND"]]}

\* The slots of SlotSpec: every texture as a stencil and under every blend type.
ChainSlots ==
    {[DefaultSlot EXCEPT !.texture = t, !.use_stencil = s, !.blend_type = b] :
        t \in SlotTextures, s \in BOOLEAN, b \in {"MIX", "ADD", "MULTIPLY"}}

\* Stencil slots ignore their blend type; one blend type stands for all.
SlotSpecSlots ==
    {slot \in ChainSlots : slot.use_stencil => slot.blend_type = "MIX"} \cup UnusedSlots

SlotSpecMaterials ==
    {Material(use_mist, slots, NoAction) :
        use_mist \in BOOLEAN, slots \in SeqsUpTo(SlotSpecSlots, MaxChain)}

\* The first call on a fresh converter.
FirstExportMaterialCall ==
    /\ lastCall = NoCall
    /\ \E bm \in SlotSpecMaterials : ExportMaterialCall("objA", bm)

FirstExportWavesetMaterialCall ==
    /\ lastCall = NoCall
    /\ \E bm \in SlotSpecMaterials :
          Len(bm.texture_slots) <= 1 /\ ExportWavesetMaterialCall("objA", bm)

SlotNext == FirstExportMaterialCall \/ FirstExportWavesetMaterialCall

SlotSpec == Init /\ [][SlotNext]_vars

\* ------------------------------------------- a session of environment maps
\* Most export_material calls of a session in EnvSpec.
MaxEnvCalls == 4

\* The environment-map textures of the scene of EnvSpec: cube and plane
\* mappings, seen from the object itself or from objB, with and without
\* visibility regions; one animated; two whose regions do not resolve.
EnvTextures ==
    {[DefaultTexture EXCEPT !.type = "ENVIRONMENT_MAP", !.env_mapping = m,
                            !.env_viewpoint = v, !.vis_regions = r] :
        m \in {"CUBE", "PLANE"}, v \in {None, "objB"},
        r \in {<<>>, <<"rgnToo", "rgnOn">>}}
    \cup
    {[DefaultTexture EXCEPT !.type = "ENVIRONMENT_MAP", !.env_source = "ANIMATED",
                            !.env_resolution = 5],
     [DefaultTexture EXCEPT !.type = "ENVIRONMENT_MAP",
                            !.vis_regions = <<"rgnOn", "rgnOff">>],
     [DefaultTexture EXCEPT !.type = "ENVIRONMENT_MAP", !.env_mapping = "PLANE",
                            !.vis_regions = <<"rgnOn", "rgnGone">>]}

\* A material whose only slot holds the texture.
EnvMaterial(texture) ==
    Material(TRUE, <<[DefaultSlot EXCEPT !.texture = texture]>>, NoAction)

\* converter.export_material(bo, bm) for a material with an environment map
EnvExportMaterialCall(bo, texture) ==
    /\ status = "converting"
    /\ Len(materials) < MaxEnvCalls
    /\ ExportMaterialStep(bo, EnvMaterial(texture))

\* The session exports for either engine version.
EnvInit == (\E v \in {"pvMoul", "pvPots"} : InitConverter(v)) /\ TexIdle /\ OpIdle

EnvNext == \E bo \in Objects, texture \in EnvTextures : EnvExportMaterialCall(bo, texture)

EnvSpec == EnvInit /\ [][EnvNext]_vars

\* ------------------------------------------ a session of several objects
\* Most materials a session of ListSpec allocates.
MaxMaterials == 4

\* The materials of ListSpec: without slot, with one slot (no texture data,
\* an image texture without image, an image texture on imgA), and with a
\* stencil slot that has no following slot.
ListMaterials ==
    {Material(TRUE, slots, NoAction) :
        slots \in {<<>>,
                   <<[DefaultSlot EXCEPT !.texture = [DefaultTexture EXCEPT !.type = "NONE"]]>>,
                   <<[DefaultSlot EXCEPT !.texture = [DefaultTexture EXCEPT !.use_alpha = TRUE]]>>,
                   <<ImageSlot("imgA", FALSE, "plain")>>,
                   <<[DefaultSlot EXCEPT !.texture = [DefaultTexture EXCEPT !.type = "NONE"],
                                         !.use_stencil = TRUE]>>}}

CanExportMore == status = "converting" /\ Len(materials) < MaxMaterials

ListExportMaterialCall(bo, bm) == CanExportMore /\ ExportMaterialStep(bo, bm)

ListExportWavesetMaterialCall(bo, bm) ==
    /\ CanExportMore
    /\ Becomes(ExportWavesetMaterial(State, bo, bm),
               [NoCall EXCEPT !.op = "export_waveset_material", !.bo = bo, !.bm = bm])
    /\ UNCHANGED <<status, finalized, texVars, opVars>>

ListNext ==
    \/ \E bo \in Objects, bm \in ListMaterials : ListExportMaterialCall(bo, bm)
    \/ \E bo \in Objects : ListExportWavesetMaterialCall(bo, Material(TRUE, <<>>, NoAction))
    \/ \E bo \in Objects : GetMaterialsCall(bo)

ListSpec == Init /\ [][ListNext]_vars

\* ----------------------------------------- a session with a broken image
\* Most export_material calls of a session in GLSpec.
MaxGLCalls == 3

\* The materials of GLSpec: one image slot, on an image that decodes or on
\* the broken one, with and without mip levels, scanned for alpha or not.
GLMaterials ==
    {Material(TRUE, <<ImageSlot(image, mipmap, how)>>, NoAction) :
        image \in {"imgA"} \cup BrokenImages, mipmap \in BOOLEAN,
        how \in {"plain", "calc"}}

GLExportMaterialCall(bo, bm) ==
    /\ status = "converting"
    /\ Len(materials) < MaxGLCalls
    /\ ExportMaterialStep(bo, bm)

GLNext ==
    \/ \E bm \in GLMaterials : GLExportMaterialCall("objA", bm)
    \/ FinalizeCall

GLSpec == Init /\ [][GLNext]_vars

\* ------------------------------------------- one export of animated slots
\* Longest texture_slots list of a material in AnimSpec.
MaxAnimSlots == 2

\* A curve of a material's action on a property of the texture slot at
\* position slot of texture_slots ("texture_slots[slot - 1].prop").
SlotCurve(slot, prop, keyed) == [slot |-> slot, prop |-> prop, keyed |-> keyed]

\* An action of a material.
MatAction(fcurves) ==
    [kind |-> "Action", fcurves |-> fcurves, frame_range |-> <<10, 40>>]

\* The texture datablocks of AnimSpec: without action; with a keyed offset
\* curve; with a keyed opacity curve; with an opacity curve that holds no
\* keyframes; with an action that has no curves.
AnimTextures ==
    {[DefaultTexture EXCEPT !.type = "NONE"],
     [DefaultTexture EXCEPT !.type = "NONE", !.action = TexAction("offset")],
     [DefaultTexture EXCEPT !.type = "NONE", !.action = TexAction("plasma_layer.opacity")],
     [DefaultTexture EXCEPT !.type = "NONE",
         !.action = [TexAction("plasma_layer.opacity") EXCEPT !.fcurves[1].keyed = FALSE]],
     [DefaultTexture EXCEPT !.type = "NONE",
         !.action = [kind |-> "Action", fcurves |-> <<>>, frame_range |-> <<0, 1>>]]}

\* The entries of texture_slots in AnimSpec: a slot per texture, an empty
\* entry and a disabled slot.
AnimSlots ==
    {[DefaultSlot EXCEPT !.texture = t] : t \in AnimTextures}
    \cup {EmptySlot, [DefaultSlot EXCEPT !.use = FALSE]}

\* The actions of the materials of AnimSpec.
AnimActions ==
    {NoAction,
     MatAction(<<SlotCurve(1, "offset", TRUE)>>),
     MatAction(<<SlotCurve(2, "offset", TRUE)>>),
     MatAction(<<SlotCurve(1, "scale", FALSE)>>),
     MatAction(<<SlotCurve(1, "plasma_layer.opacity", TRUE)>>)}

AnimMaterials ==
    {Material(TRUE, slots, action) :
        slots \in SeqsUpTo(AnimSlots, MaxAnimSlots), action \in AnimActions}

\* The first call on a fresh converter.
AnimExportMaterialCall(bm) == lastCall = NoCall /\ ExportMaterialStep("objA", bm)

AnimNext == \E bm \in AnimMaterials : AnimExportMaterialCall(bm)

AnimSpec == Init /\ [][AnimNext]_vars

\* --------------------------------------------- one export of an image slot
\* The image textures of ImgSpec: on an image with alpha, on an opaque
\* image, or without image; requesting alpha use, inverted alpha, clipping
\* and calculated alpha or not.
ImgTextures ==
    {[DefaultTexture EXCEPT !.image = image, !.use_alpha = use_alpha,
                            !.use_calculate_alpha = calc, !.invert_alpha = invert,
                            !.extension = extension] :
        image \in {"imgA", "imgB", None}, use_alpha \in BOOLEAN, calc \in BOOLEAN,
        invert \in BOOLEAN, extension \in {"REPEAT", "CLIP"}}

\* The materials of ImgSpec: an image slot under every blend type, or an
\* image slot as a stencil followed by a slot without texture data.
ImgMaterials ==
    {Material(TRUE, <<[DefaultSlot EXCEPT !.texture = t, !.blend_type = b]>>, NoAction) :
        t \in ImgTextures, b \in {"MIX", "ADD", "MULTIPLY"}}
    \cup
    {Material(TRUE, <<[DefaultSlot EXCEPT !.texture = t, !.use_stencil = TRUE],
                      [DefaultSlot EXCEPT !.texture = [DefaultTexture EXCEPT !.type = "NONE"]]>>,
              NoAction) :
        t \in ImgTextures}

\* The first call on a fresh converter.
ImgExportMaterialCall(bm) == lastCall = NoCall /\ ExportMaterialStep("objA", bm)

ImgNext == \E bm \in ImgMaterials : ImgExportMaterialCall(bm)

ImgSpec == Init /\ [][ImgNext]_vars

\* ------------------------------------------- a session of small images
\* Most export_material calls of a session in MipSpec.
MaxMipCalls == 2

\* The materials of MipSpec: one image slot on a small image or on the
\* 256 x 256 one, with and without mip levels.
MipMaterials ==
    {Material(TRUE, <<ImageSlot(image, mipmap, "plain")>>, NoAction) :
        image \in SmallImages \cup {"imgA"}, mipmap \in BOOLEAN}

MipExportMaterialCall(bo, bm) ==
    /\ status = "converting"
    /\ Len(materials) < MaxMipCalls
    /\ ExportMaterialStep(bo, bm)

MipNext ==
    \/ \E bm \in MipMaterials : MipExportMaterialCall("objA", bm)
    \/ FinalizeCall

MipSpec == Init /\ [][MipNext]_vars

\* ------------------------------------------------ the export operator
\* scene.frame_start
FrameStart == 1

\* _UiHelper.__init__: the active object and the selection are saved.
UiHelperInit(os) ==
    [os EXCEPT !.saved = [active_object |-> os.ui.active,
                          selected_objects |-> os.ui.selection,
                          saved_layers |-> "", frame_num |-> 0]]

\* _UiHelper.__enter__: the scene layers and the frame are saved, the scene
\* goes to its first frame, and some object becomes active if none was.
UiHelperEnter(os) ==
    [os EXCEPT !.saved.saved_layers = os.ui.scene_layers,
               !.saved.frame_num = os.ui.frame,
               !.ui.frame = FrameStart,
               !.ui.active = IF @ = None THEN "objA" ELSE @,
               !.entered = TRUE]

\* A variant of __exit__ that leaves the frame where the export put it.
UiHelperExit_KeepsFrame(os) ==
    [os EXCEPT !.ui.selection = {i \in Objects : i \in os.saved.selected_objects},
               !.ui.active = os.saved.active_object,
               !.ui.scene_layers = os.saved.saved_layers]

\* _UiHelper.__exit__: it returns None, so an exception goes on.
UiHelperExit(os) ==
    [os EXCEPT !.ui.selection = {i \in Objects : i \in os.saved.selected_objects},
               !.ui.active = os.saved.active_object,
               !.ui.scene_layers = os.saved.saved_layers,
               !.ui.frame = os.saved.frame_num]

\* Exporter.run for a scene of one object with one material: the material
\* is converted, then the converter is finalized; an exception ends the run.
ExporterRun(st, bo, bm) ==
    IF ExportMaterial(st, bo, bm).exc # "" THEN ExportMaterial(st, bo, bm)
    ELSE Finalize(ExportMaterial(st, bo, bm))

\* What the stages of a run do to the UI as they go: touch is
\* <<selection, active object, scene layers, frame>>.
TouchUi(ui, touch) ==
    [ui EXCEPT !.selection = touch[1], !.active = touch[2],
               !.scene_layers = touch[3], !.frame = touch[4]]

\* Lines 137-142: export_active is set and the run is made (under cProfile
\* or not, the run and its exception are the same).
TryRun(os, bo, bm, touch) ==
    [os EXCEPT !.export_active = TRUE,
               !.conv = ExporterRun(os.conv, bo, bm),
               !.ui = TouchUi(os.ui, touch)]

\* Lines 143-153: an ExportError is reported and CANCELLED returned; another
\* exception goes on; else the profile is written, which may fail, and
\* FINISHED returned.
AfterRun(os, profile_export, stats_writable) ==
    IF os.conv.exc = "ExportError"
    THEN [os EXCEPT !.reports = Append(@, <<"ERROR", os.conv.exc>>),
                    !.result = "CANCELLED"]
    ELSE IF os.conv.exc # ""
    THEN [os EXCEPT !.result = "raised", !.exc = os.conv.exc]
    ELSE IF profile_export /\ ~stats_writable
    THEN [os EXCEPT !.result = "raised", !.exc = "OSError"]
    ELSE [os EXCEPT !.result = "FINISHED"]

\* Lines 154-155: finally, export_active is reset.
ResetActive(os) == [os EXCEPT !.export_active = FALSE]

\* Lines 128-155.
ExecuteExport(os, profile_export, stats_writable, bo, bm, touch) ==
    UiHelperExit(
        ResetActive(
            AfterRun(
                TryRun(UiHelperEnter(UiHelperInit([os EXCEPT !.ui.mode = "OBJECT"])),
                       bo, bm, touch),
                profile_export, stats_writable)))

\* ExportOperator.execute: the operator afterwards; os.result is what it
\* returned, "raised" when an exception left it.
Execute(os, filepath, profile_export, stats_writable, bo, bm, touch) ==
    IF filepath = ""
    THEN [os EXCEPT !.error = "No file specified", !.result = "CANCELLED"]
    ELSE ExecuteExport(os, profile_export, stats_writable, bo, bm, touch)

\* The operator and what it works on as one value.
OpState ==
    [result |-> "none", exc |-> "", export_active |-> export_active,
     entered |-> FALSE, reports |-> <<>>, error |-> "", saved |-> <<>>,
     ui |-> uiState, conv |-> State]

\* The UI states an export is invoked in.
UiStates ==
    [selection : SUBSET Objects, active : Objects \cup {None},
     scene_layers : {"layer1", "layer2"}, frame : {1, 7}, mode : {"OBJECT", "EDIT"}]

\* What a run may leave behind in the UI.
RunTouches ==
    {<<{}, "objA", "layer1", 1>>, <<{"objB"}, "objB", "layer2", 30>>,
     <<Objects, None, "layer1", 7>>}

\* The materials of OpSpec: one that exports and finalizes, one without
\* slots, one whose stencil slot has no following slot (ExportError), one
\* with an image-file environment map (AttributeError), and one on the image
\* that does not decode (finalize raises).
OpMaterials ==
    {Material(TRUE, slots, NoAction) :
        slots \in {<<ImageSlot("imgA", TRUE, "plain")>>,
                   <<>>,
                   <<ImageSlot("imgB", FALSE, "stencil")>>,
                   <<[DefaultSlot EXCEPT !.texture =
                        [DefaultTexture EXCEPT !.type = "ENVIRONMENT_MAP",
                                               !.env_source = "IMAGE_FILE"]]>>,
                   <<ImageSlot("imgD", TRUE, "calc")>>}}

\* The operator is invoked once, with or without a file path.
ExecuteCall(filepath, profile_export, stats_writable, bo, bm, touch) ==
    /\ opResult = NoResult
    /\ LET os == Execute(OpState, filepath, profile_export, stats_writable, bo, bm, touch)
       IN  /\ Becomes(os.conv, [NoCall EXCEPT !.op = "execute", !.bo = bo, !.bm = bm])
           /\ status' = IF os.conv.exc # "" THEN "raised"
                        ELSE IF os.entered THEN "finalized" ELSE status
           /\ finalized' = IF os.entered /\ os.conv.exc = "" THEN finalized + 1
                           ELSE finalized
           /\ uiState' = os.ui
           /\ export_active' = os.export_active
           /\ opResult' = [result |-> os.result, exc |-> os.exc, op |-> "execute",
                           entered |-> os.entered, reports |-> os.reports, error |-> os.error]
    /\ UNCHANGED texVars

OpInit ==
    /\ InitConverter("pvPots")
    /\ TexIdle
    /\ uiState \in UiStates
    /\ export_active = FALSE
    /\ opResult = NoResult

OpNext ==
    \E filepath \in {"", "age.age"}, profile_export \in BOOLEAN,
       stats_writable \in BOOLEAN, bm \in OpMaterials, touch \in RunTouches :
        ExecuteCall(filepath, profile_export, stats_writable, "objA", bm, touch)

OpSpec == OpInit /\ [][OpNext]_vars

\* --------------------------------------------------- _Texture comparisons
\* The _Texture built for a slot at line 452.
SlotKey(image, calc, mipmap, stencil) ==
    LET texture == [DefaultTexture EXCEPT !.image = image, !.use_mipmap = mipmap,
                                          !.use_calculate_alpha = calc]
        has_alpha == calc \/ stencil \/ ScanImageAlpha(image)
    IN  TextureInit(texture, None, <<has_alpha>>, stencil)

\* Every _Texture the converter can build: for a slot, or for a prepared layer.
TextureObjects ==
    {SlotKey(image, calc, mipmap, stencil) :
        image \in Images, calc \in BOOLEAN, mipmap \in BOOLEAN, stencil \in BOOLEAN}
    \cup {TextureInit(NoTexture, image, <<>>, FALSE) : image \in Images}

\* Something that is not a _Texture.
NotATexture == [image |-> "imgA"]

TexInit ==
    /\ InitConverter("pvMoul")
    /\ tStored \in TextureObjects
    /\ tKey \in TextureObjects \cup {NotATexture}
    /\ tStoredAfter = NoTexture /\ tKeyAfter = NoTexture
    /\ tResult = "unset"
    /\ OpIdle

\* tStored == tKey, evaluated as tStored.__eq__(tKey)
TexEqCall ==
    /\ tResult = "unset"
    /\ LET r == TextureEq(tStored, tKey)
       IN  /\ tResult' = r.result
           /\ tStoredAfter' = r.self
           /\ tKeyAfter' = r.other
    /\ UNCHANGED <<tStored, tKey, convVars, opVars>>

\* tKey in {tStored: ...}: the lookup the pending table makes
TexLookupCall ==
    /\ tResult = "unset"
    /\ IsTexture(tKey)
    /\ LET r == DictProbe(<<[key |-> tStored, layers |-> <<>>]>>, tKey)
       IN  /\ tResult' = IF r.found THEN "found" ELSE "absent"
           /\ tStoredAfter' = r.dict[1].key
           /\ tKeyAfter' = r.key
    /\ UNCHANGED <<tStored, tKey, convVars, opVars>>

TexNext == TexEqCall \/ TexLookupCall

TexSpec == TexInit /\ [][TexNext]_vars

\* ================================================================== claims
\* The _Texture objects built for identity (image, calc_alpha), in order.
GroupRefs(image, calc) ==
    SelectSeq(refs, LAMBDA r : r.key.image = image /\ r.key.calc_alpha = calc)

\* The positions of the pending table whose key has identity (image, calc_alpha).
GroupEntries(image, calc) ==
    {i \in 1..Len(pending) :
        pending[i].key.image = image /\ pending[i].key.calc_alpha = calc}

\* C1: after any sequence of slot exports and export_prepared_layer calls,
\* every group of references with the same image and calc_alpha has exactly
\* one entry in the pending table; its use_alpha and mipmap are the OR over
\* the group, and its consumer list is the group's layers in first-seen order.
C1_PendingMerged ==
    \A image \in Images, calc \in BOOLEAN :
        LET g  == GroupRefs(image, calc)
            es == GroupEntries(image, calc)
        IN  IF g = <<>> THEN es = {}
            ELSE /\ Cardinality(es) = 1
                 /\ \A e \in es :
                      /\ pending[e].key.use_alpha = (\E k \in 1..Len(g) : g[k].key.use_alpha)
                      /\ pending[e].key.mipmap = (\E k \in 1..Len(g) : g[k].key.mipmap)
                      /\ Len(pending[e].layers) = Len(g)
                      /\ \A k \in 1..Len(g) : pending[e].layers[k] = g[k].layer

\* A group of three references that disagree on use_alpha and on mipmap.
C1_Witness ==
    \E image \in Images, calc \in BOOLEAN :
        LET g == GroupRefs(image, calc)
        IN  /\ Len(g) >= 3
            /\ \E j, k \in 1..Len(g) : g[j].key.use_alpha /\ ~g[k].key.use_alpha
            /\ \E j, k \in 1..Len(g) : j < k /\ ~g[j].key.mipmap /\ g[k].key.mipmap

\* The layer a consumer-list entry designates.
Consumer(e, i) == layers[pending[e].layers[i]]

\* C2: after finalize, two layers in the consumer list of the same identity
\* point at the identical bitmap when get_textures_page gives them the same
\* page, and at distinct bitmaps with the same dimensions, level count,
\* compression and level data when their pages differ.
C2_FinalizedBitmaps ==
    status = "finalized" =>
        \A e \in 1..Len(pending) : \A i, j \in 1..Len(pending[e].layers) :
            LET la == Consumer(e, i)
                lb == Consumer(e, j)
            IN  /\ Len(la.texture) = 2 /\ la.texture[1] = "plMipmap"
                /\ Len(lb.texture) = 2 /\ lb.texture[1] = "plMipmap"
                /\ IF GetTexturesPage(la) = GetTexturesPage(lb)
                   THEN la.texture = lb.texture
                   ELSE /\ la.texture # lb.texture
                        /\ LET ba == bitmaps[la.texture[2]]
                               bb == bitmaps[lb.texture[2]]
                           IN  /\ ba.width = bb.width /\ ba.height = bb.height
                               /\ ba.numLevels = bb.numLevels
                               /\ ba.compType = bb.compType
                               /\ ba.data = bb.data

\* Finalized, with one identity consumed by two layers of one page and by a
\* layer of another page.
C2_Witness ==
    /\ status = "finalized"
    /\ \E e \in 1..Len(pending) : \E i, j, k \in 1..Len(pending[e].layers) :
          /\ i # j
          /\ GetTexturesPage(Consumer(e, i)) = GetTexturesPage(Consumer(e, j))
          /\ GetTexturesPage(Consumer(e, i)) # GetTexturesPage(Consumer(e, k))

\* C7: when finalize returns, the pending table is empty, so that a second
\* finalize creates no further bitmaps.
C7_PendingDrained ==
    /\ status = "finalized" => pending = <<>>
    /\ finalized >= 2 => Len(bitmaps) <= Cardinality({<<b.name, b.page>> : b \in
                              {bitmaps[i] : i \in 1..Len(bitmaps)}})

\* C8 as claimed: a source image appears under at most one key of the table.
C8_OneKeyPerImage ==
    \A image \in Images :
        Cardinality({i \in 1..Len(pending) : pending[i].key.image = image}) <= 1

\* C8, amended: a source image appears under at most one key per value of
\* calc_alpha, hence under at most two keys.
C8_OneKeyPerImageAndCalcAlpha ==
    \A image \in Images :
        LET ks == {i \in 1..Len(pending) : pending[i].key.image = image}
        IN  /\ Cardinality(ks) <= 2
            /\ \A i, j \in ks : pending[i].key.calc_alpha = pending[j].key.calc_alpha => i = j

\* One image under two keys, one of them with two consumers whose
\* references disagreed on mipmap.
C8_Witness ==
    \E image \in Images :
        /\ GroupEntries(image, TRUE) # {} /\ GroupEntries(image, FALSE) # {}
        /\ \E calc \in BOOLEAN :
              LET g == GroupRefs(image, calc)
              IN  Len(g) >= 2 /\ g[1].key.mipmap # g[2].key.mipmap

\* C9: two identities compare equal exactly when they have the same image
\* and the same calc_alpha, whatever their use_alpha and mipmap.
C9_EqualIffSameImageAndCalcAlpha ==
    (tResult # "unset" /\ IsTexture(tKey)) =>
        ((tResult \in {"True", "found"})
            <=> (tStored.image = tKey.image /\ tStored.calc_alpha = tKey.calc_alpha))

\* Two identities that compared equal although use_alpha and mipmap differ.
C9_Witness ==
    /\ tResult = "True"
    /\ tStored.use_alpha # tKey.use_alpha
    /\ tStored.mipmap # tKey.mipmap

\* C10 as claimed: on a collision both objects end with the OR of the flags.
C10_BothMerged ==
    tResult = "found" =>
        /\ tStoredAfter.use_alpha = (tStored.use_alpha \/ tKey.use_alpha)
        /\ tStoredAfter.mipmap = (tStored.mipmap \/ tKey.mipmap)
        /\ tKeyAfter.use_alpha = (tStored.use_alpha \/ tKey.use_alpha)
        /\ tKeyAfter.mipmap = (tStored.mipmap \/ tKey.mipmap)

\* C10, amended: on a collision the object the table retains ends with the
\* OR of the flags, and the newly built object is left as it was built.
C10_RetainedMerged ==
    tResult = "found" =>
        /\ tStoredAfter.use_alpha = (tStored.use_alpha \/ tKey.use_alpha)
        /\ tStoredAfter.mipmap = (tStored.mipmap \/ tKey.mipmap)
        /\ tStoredAfter.image = tStored.image
        /\ tStoredAfter.calc_alpha = tStored.calc_alpha
        /\ tKeyAfter = tKey

\* A collision in which each object had a flag the other lacked.
C10_Witness ==
    /\ tResult = "found"
    /\ tStored.use_alpha /\ ~tKey.use_alpha
    /\ ~tStored.mipmap /\ tKey.mipmap
    /\ tStoredAfter.mipmap /\ ~tKeyAfter.use_alpha

\* The slots of a material that the claims call qualifying: enabled, with a
\* texture assigned, of type IMAGE, ENVIRONMENT_MAP or NONE.
IsQualifying(slot) ==
    /\ slot # EmptySlot
    /\ slot.use
    /\ slot.texture # NoTexture
    /\ slot.texture.type \in {"IMAGE", "ENVIRONMENT_MAP", "NONE"}

QualifyingSlots(bm) == SelectSeq(bm.texture_slots, IsQualifying)

\* The fresh converter on which the one call of SlotSpec ran, with the
\* material object of that call allocated.
FreshMaterial(bm) ==
    AddMaterialObject(
        [layers |-> <<>>, glHeld |-> {}, exc |-> "", alphatest |-> <<>>,
         alphaCalls |-> <<>>, warnings |-> {}, textmaps |-> <<>>, pending |-> <<>>,
         refs |-> <<>>, envmaps |-> <<>>, ret |-> 0,
         version |-> version, materials |-> <<>>, obj2mat |-> <<>>, bitmaps |-> <<>>,
         imageSize |-> imageSize],
        <<bm.name>>, lastCall.bo)

\* What _export_texture_slot does when called for slot i of the last
\* material, and the entry it appends last to the material's layers.
SlotRun(bm, i) ==
    ExportTextureSlot(FreshMaterial(bm), lastCall.bo, bm, 1, QualifyingSlots(bm), i)

LastEntry(run) == run.materials[1].layers[Len(run.materials[1].layers)]

\* The plLayer allocated for the slot behind a material entry.
Under(run, entry) ==
    IF run.layers[entry].cls = "plLayerAnimation" THEN run.layers[entry].underLay
    ELSE entry

\* C3: for a stencil slot i with a following slot, _export_texture_slot
\* reports 2 slots consumed; the layer of slot i+1 is placed in the
\* material's layer sequence immediately before the stencil layer of slot i;
\* that base layer carries bind-next and restart-pass; and alpha blending is
\* forced on it exactly when it had no blend-mode bit before the flagging.
C3_StencilChain ==
    (lastCall.op = "export_material" /\ lastCall.exc = "") =>
        LET bm    == lastCall.bm
            slots == QualifyingSlots(bm)
        IN  \A i \in 1..(Len(slots) - 1) :
              slots[i].use_stencil =>
                LET run    == SlotRun(bm, i)       \* the call for the stencil slot
                    alone  == SlotRun(bm, i + 1)   \* the following slot by itself
                    n      == Len(run.materials[1].layers)
                    base   == run.layers[run.materials[1].layers[n - 1]]
                    before == alone.layers[LastEntry(alone)]
                    top    == run.materials[1].layers[n]
                IN  /\ run.exc = "" /\ alone.exc = ""
                    /\ run.ret = 2
                    \* the stencil layer is the first layer the call allocated
                    /\ Under(run, top) = 1
                    /\ "kBlendNoTexColor" \in run.layers[1].blendFlags
                    \* everything the following slot appends comes right before it
                    /\ n = Len(alone.materials[1].layers) + 1
                    /\ \A k \in 1..(n - 1) :
                          run.materials[1].layers[k] = alone.materials[1].layers[k] + 1
                    /\ base.cls = before.cls /\ base.name = before.name
                    /\ {"kMiscBindNext", "kMiscRestartPassHere"} \subseteq base.miscFlags
                    /\ base.miscFlags \ {"kMiscBindNext", "kMiscRestartPassHere"}
                          = before.miscFlags \ {"kMiscBindNext", "kMiscRestartPassHere"}
                    /\ base.blendFlags =
                          IF before.blendFlags \cap kBlendMask = {}
                          THEN before.blendFlags \cup {"kBlendAlpha"}
                          ELSE before.blendFlags

\* A material exported with two stencil pairs: one whose base layer had a
\* blend mode other than alpha, one whose base layer had none.
C3_Witness ==
    /\ lastCall.op = "export_material" /\ lastCall.exc = ""
    /\ LET slots == QualifyingSlots(lastCall.bm)
       IN  /\ Len(slots) = 3
           /\ slots[1].use_stencil /\ slots[2].use_stencil /\ ~slots[3].use_stencil
           /\ slots[3].blend_type = "ADD"
           /\ "kBlendAlpha" \notin layers[materials[1].layers[1]].blendFlags
           /\ "kMiscBindNext" \in layers[materials[1].layers[1]].miscFlags
           /\ "kMiscBindNext" \in layers[materials[1].layers[2]].miscFlags

\* C4: a material without qualifying slot exports as a material with exactly
\* one layer, which carries only the propagated shading and colour state, and
\* adds nothing to the pending table.
C4_DefaultLayerOnly ==
    (lastCall.op = "export_material" /\ QualifyingSlots(lastCall.bm) = <<>>) =>
        /\ lastCall.exc = "" /\ lastCall.ret = 1
        /\ Len(materials) = 1 /\ Len(layers) = 1
        /\ materials[1].layers = <<1>>
        /\ pending = <<>> /\ refs = <<>>
        /\ layers[1].cls = "plLayer"
        /\ layers[1].texture = <<>>
        /\ layers[1].blendFlags = {} /\ layers[1].clampFlags = {}
        /\ layers[1].ZFlags = {} /\ layers[1].miscFlags = {}
        /\ layers[1].shadeFlags = IF lastCall.bm.use_mist THEN {}
                                  ELSE {"kShadeNoFog", "kShadeReallyNoFog"}
        /\ layers[1].ambient = "world.ambient_color"
        /\ layers[1].preshade = lastCall.bm.diffuse_color
        /\ layers[1].runtime = lastCall.bm.diffuse_color
        /\ layers[1].specular = lastCall.bm.specular_color
        /\ layers[1].opacity = <<1, 1>> /\ layers[1].UVWSrc = <<"uv", 0>>
        /\ layers[1].ctrls = {} /\ layers[1].underLay = 0

\* A material without mist whose three slots are all filtered out, one of
\* them only because it is disabled.
C4_Witness ==
    /\ lastCall.op = "export_material"
    /\ ~lastCall.bm.use_mist
    /\ Len(lastCall.bm.texture_slots) = 3
    /\ QualifyingSlots(lastCall.bm) = <<>>
    /\ \E i \in 1..3 : lastCall.bm.texture_slots[i] = [DefaultSlot EXCEPT !.use = FALSE]
    /\ Len(layers) = 1

\* C5: every material reference that export_material or
\* export_waveset_material returns designates a material with at least one
\* layer.
C5_AtLeastOneLayer ==
    (lastCall.op \in {"export_material", "export_waveset_material"} /\ lastCall.ret # 0) =>
        /\ lastCall.ret \in 1..Len(materials)
        /\ Len(materials[lastCall.ret].layers) >= 1
        /\ \A k \in 1..Len(materials[lastCall.ret].layers) :
              materials[lastCall.ret].layers[k] \in 1..Len(layers)

\* A material returned for a stencil slot on an animated slot.
C5_Witness ==
    /\ lastCall.op = "export_material" /\ lastCall.ret # 0
    /\ LET slots == QualifyingSlots(lastCall.bm)
       IN  /\ Len(slots) = 2 /\ slots[1].use_stencil
           /\ slots[2].texture.action # NoAction
    /\ \E k \in 1..Len(layers) : layers[k].cls = "plLayerAnimation"

ImageFileEnvFirst(bm) ==
    /\ QualifyingSlots(bm) # <<>>
    /\ ~QualifyingSlots(bm)[1].use_stencil
    /\ QualifyingSlots(bm)[1].texture.type = "ENVIRONMENT_MAP"
    /\ QualifyingSlots(bm)[1].texture.env_source \notin {"STATIC", "ANIMATED"}

\* C11: exporting an environment map whose source is an image file warns and
\* goes on: no exception leaves _export_texture_slot, and the slot's layer is
\* appended to the material with the environment-map shade flag and without
\* a texture reference.
C11_ImageFileEnvMapWarnsOnly ==
    (lastCall.op = "export_material" /\ ImageFileEnvFirst(lastCall.bm)) =>
        /\ SlotRun(lastCall.bm, 1).exc = ""
        /\ \E w \in SlotRun(lastCall.bm, 1).warnings : w[1] = "IMAGE EnvironmentMaps"
        /\ SlotRun(lastCall.bm, 1).materials[1].layers = <<1>>
        /\ "kShadeEnvironMap" \in SlotRun(lastCall.bm, 1).layers[1].shadeFlags
        /\ SlotRun(lastCall.bm, 1).layers[1].texture = <<>>

\* width and height are powers of two.
IsPowerOfTwo(n) == \E k \in 0..16 : n = 2^k

\* C12: finalize gives the bitmap of a pending texture whose image has
\* power-of-two dimensions w x h one level when the identity's mipmap flag is
\* false, and max(floor(log2(max(w, h))) + 1 - 2, 2) levels when it is true;
\* a mipmapped 256 x 256 texture gets 7 levels.
C12_LevelCount ==
    status = "finalized" =>
        \A e \in 1..Len(pending) : \A i \in 1..Len(pending[e].layers) :
            LET w == ImageFileSize(pending[e].key.image)[1]
                h == ImageFileSize(pending[e].key.image)[2]
                b == bitmaps[Consumer(e, i).texture[2]]
            IN  (IsPowerOfTwo(w) /\ IsPowerOfTwo(h)) =>
                  /\ b.width = w /\ b.height = h
                  /\ ~pending[e].key.mipmap => b.numLevels = 1
                  /\ pending[e].key.mipmap =>
                        \E k \in 0..16 :
                           /\ 2^k <= Max(w, h) /\ Max(w, h) < 2^(k + 1)
                           /\ b.numLevels = Max(k + 1 - 2, 2)
                  /\ (pending[e].key.mipmap /\ w = 256 /\ h = 256) => b.numLevels = 7
                  /\ Len(b.data) = b.numLevels

\* Finalized with a mipmapped 256 x 256 texture of 7 levels, a mipmapped
\* 4 x 2 texture of 2 levels and a texture without mipmaps of one level.
C12_Witness ==
    /\ status = "finalized"
    /\ \E e, f \in 1..Len(pending) :
          /\ pending[e].key.mipmap
          /\ ImageFileSize(pending[e].key.image) = <<256, 256>>
          /\ bitmaps[Consumer(e, 1).texture[2]].numLevels = 7
          /\ pending[f].key.mipmap
          /\ ImageFileSize(pending[f].key.image) = <<4, 2>>
          /\ bitmaps[Consumer(f, 1).texture[2]].numLevels = 2
          /\ \E g \in 1..Len(pending) :
                /\ ~pending[g].key.mipmap
                /\ bitmaps[Consumer(g, 1).texture[2]].numLevels = 1

\* Does a rule other than the opacity rule set kBlendAlpha on the layer of a
\* slot during the slot's own export: the stencil flags, the image exporter
\* for an image with alpha, or the opacity animation converter.
OtherAlphaRule(slot) ==
    \/ slot.use_stencil
    \/ slot.texture.type = "IMAGE"
    \/ HasOpacityCurve(HarvestFCurves(slot.texture.action, 0))

\* C13: the layer of every exported slot has the texture's opacity override
\* divided by 100 as its opacity; the opacity rule sets kBlendAlpha when the
\* override is below 100 and not when it is 100 (the flag is then absent
\* unless another rule set it); an override of 50 on a slot without other
\* blend flags gives opacity 0.5 and kBlendAlpha as the only blend flag.
C13_OpacityRule ==
    lastCall.op = "export_material" =>
        \A i \in 1..Len(QualifyingSlots(lastCall.bm)) :
            LET slot == QualifyingSlots(lastCall.bm)[i]
                run  == SlotRun(lastCall.bm, i)
            IN  run.exc = "" =>
                  /\ run.layers[1].opacity[1] * 100
                        = slot.texture.opacity * run.layers[1].opacity[2]
                  /\ slot.texture.opacity < 100 => "kBlendAlpha" \in run.layers[1].blendFlags
                  /\ (slot.texture.opacity = 100 /\ ~OtherAlphaRule(slot))
                        => "kBlendAlpha" \notin run.layers[1].blendFlags
                  /\ (/\ slot.texture.opacity = 50 /\ ~OtherAlphaRule(slot)
                      /\ slot.blend_type = "MIX" /\ ~slot.texture.alpha_halo)
                        => /\ run.layers[1].opacity[1] * 2 = run.layers[1].opacity[2]
                           /\ run.layers[1].blendFlags = {"kBlendAlpha"}

\* An exported material with a slot of opacity 50 and no other blend flag,
\* whose layer is alpha blended at opacity 1/2, and a slot of opacity 100
\* whose layer is not alpha blended.
C13_Witness ==
    /\ lastCall.op = "export_material" /\ lastCall.exc = ""
    /\ Len(QualifyingSlots(lastCall.bm)) = 2
    /\ QualifyingSlots(lastCall.bm)[1].texture.opacity = 50
    /\ QualifyingSlots(lastCall.bm)[1].blend_type = "MIX"
    /\ QualifyingSlots(lastCall.bm)[2].texture.opacity = 100
    /\ materials[1].layers = <<1, 2>>
    /\ layers[1].opacity = <<50, 100>>
    /\ layers[1].blendFlags = {"kBlendAlpha"}
    /\ "kBlendAlpha" \notin layers[2].blendFlags

\* A slot that is not a stencil, with the alpha-halo flag and opacity 100.
IsHaloSlot(slot) ==
    ~slot.use_stencil /\ slot.texture.alpha_halo /\ slot.texture.opacity = 100

\* The image exporter sets kBlendAlpha: an image texture that uses alpha, on
\* an image that has alpha, under a blend type other than ADD and MULTIPLY.
ImageAlphaRule(slot) ==
    /\ slot.texture.type = "IMAGE"
    /\ slot.texture.use_alpha
    /\ slot.blend_type \notin {"ADD", "MULTIPLY"}
    /\ \/ slot.texture.image = None
       \/ slot.texture.use_calculate_alpha
       \/ ScanImageAlpha(slot.texture.image)

\* C14 as stated: the layer of a non-stencil slot with alpha halo and opacity
\* 100 carries kBlendAlphaTestHigh, and carries kBlendAlpha only when the
\* blend-type or image-alpha rules set it (the blend-type rule sets
\* kBlendAddColorTimesAlpha or kBlendMult, never kBlendAlpha).
C14_HaloAlphaOnlyFromImage ==
    lastCall.op = "export_material" =>
        \A i \in 1..Len(QualifyingSlots(lastCall.bm)) :
            LET slot == QualifyingSlots(lastCall.bm)[i]
                run  == SlotRun(lastCall.bm, i)
            IN  (IsHaloSlot(slot) /\ run.exc = "") =>
                  /\ "kBlendAlphaTestHigh" \in run.layers[1].blendFlags
                  /\ "kBlendAlpha" \in run.layers[1].blendFlags => ImageAlphaRule(slot)

\* C14, amended: the layer of a non-stencil slot with alpha halo and opacity
\* 100 carries kBlendAlphaTestHigh, and when its export returns it carries
\* kBlendAlpha exactly if the image-alpha rule or the opacity animation
\* converter set it: the opacity rule contributes nothing.
C14_HaloNoAlphaFromOpacity ==
    lastCall.op = "export_material" =>
        \A i \in 1..Len(QualifyingSlots(lastCall.bm)) :
            LET slot == QualifyingSlots(lastCall.bm)[i]
                run  == SlotRun(lastCall.bm, i)
            IN  (IsHaloSlot(slot) /\ run.exc = "") =>
                  /\ "kBlendAlphaTestHigh" \in run.layers[1].blendFlags
                  /\ "kBlendAlpha" \in run.layers[1].blendFlags
                        <=> \/ ImageAlphaRule(slot)
                            \/ HasOpacityCurve(HarvestFCurves(slot.texture.action, 0))

\* An exported material whose slots are three alpha-halo textures of opacity
\* 100: one without image or animation (no alpha blending), an image with
\* alpha (alpha blended by the image exporter) and one with an opacity curve
\* (alpha blended by the animation converter).
C14_Witness ==
    /\ lastCall.op = "export_material" /\ lastCall.exc = ""
    /\ Len(QualifyingSlots(lastCall.bm)) = 3
    /\ \A i \in 1..3 : IsHaloSlot(QualifyingSlots(lastCall.bm)[i])
    /\ QualifyingSlots(lastCall.bm)[1].blend_type = "MIX"
    /\ layers[1].blendFlags = {"kBlendAlphaTestHigh"}
    /\ QualifyingSlots(lastCall.bm)[2].texture.type = "IMAGE"
    /\ layers[2].blendFlags = {"kBlendAlpha", "kBlendAlphaTestHigh"}
    /\ QualifyingSlots(lastCall.bm)[3].texture.action # NoAction
    /\ layers[3].blendFlags = {"kBlendAlpha", "kBlendAlphaTestHigh"}
    /\ layers[4].cls = "plLayerAnimation"

\* The environment map objects of one identity: target type, name derived
\* from the viewpoint, scope.
SameEnvIdentity(a, b) == a.cls = b.cls /\ a.name = b.name /\ a.bo = b.bo

\* The environment-map texture of the material of EnvSpec's last call, the
\* target type chosen for it and the name derived from its viewpoint.
EnvTextureOf(call) == call.bm.texture_slots[1].texture

EnvClassOf(call) ==
    IF EnvTextureOf(call).env_mapping = "PLANE" /\ version = "pvMoul"
    THEN "plDynamicCamMap" ELSE "plDynamicEnvMap"

EnvNameOf(call) ==
    <<IF EnvTextureOf(call).env_viewpoint = None THEN call.bo
      ELSE EnvTextureOf(call).env_viewpoint, "DynEnvMap">>

\* The environment maps that exist before the call under its identity.
EnvExisting(call) ==
    {i \in 1..Len(envmaps) :
        /\ envmaps[i].cls = EnvClassOf(call)
        /\ envmaps[i].name = EnvNameOf(call)
        /\ envmaps[i].bo = call.bo}

\* C15: after every export_dynamic_env call there is at most one environment
\* map per (target type, name, scope). A call whose identity exists returns
\* the existing object and allocates nothing; for a camera map it registers
\* the caller's object as a target node and appends the new layer to the
\* material-layer list, for a general environment map it leaves the existing
\* object as it is. A call whose identity does not exist allocates one.
C15_EnvMapReuse ==
    [][lastCall'.op = "export_material" =>
        /\ \A i, j \in 1..Len(envmaps') :
              SameEnvIdentity(envmaps'[i], envmaps'[j]) => i = j
        /\ EnvExisting(lastCall') = {} => Len(envmaps') = Len(envmaps) + 1
        /\ EnvExisting(lastCall') # {} =>
              \E e \in EnvExisting(lastCall') :
                 /\ lastCall'.exc = ""
                 /\ Len(envmaps') = Len(envmaps)
                 /\ Len(layers') = Len(layers) + 1
                 /\ layers'[Len(layers) + 1].texture = <<EnvClassOf(lastCall'), e>>
                 /\ \A k \in 1..Len(envmaps) : k # e => envmaps'[k] = envmaps[k]
                 /\ envmaps'[e] =
                       IF EnvClassOf(lastCall') = "plDynamicCamMap"
                       THEN [envmaps[e] EXCEPT
                               !.targetNodes = Append(@, lastCall'.bo),
                               !.matLayers = Append(@, Len(layers) + 1)]
                       ELSE envmaps[e]]_vars

\* A session in which a camera map was exported twice for objA and a general
\* environment map twice for objB: two maps, the camera map with two target
\* nodes and two material layers, the general map referenced by two layers
\* and configured by the first call only.
C15_Witness ==
    /\ Len(materials) = 4 /\ Len(envmaps) = 2
    /\ \E c, g \in 1..2 :
          /\ envmaps[c].cls = "plDynamicCamMap" /\ envmaps[c].bo = "objA"
          /\ envmaps[c].targetNodes = <<"objA", "objA">>
          /\ Len(envmaps[c].matLayers) = 2
          /\ envmaps[g].cls = "plDynamicEnvMap" /\ envmaps[g].bo = "objB"
          /\ envmaps[g].refreshRate = "0.01"
          /\ Cardinality({l \in 1..Len(layers) :
                             layers[l].texture = <<"plDynamicEnvMap", g>>}) = 2
          /\ lastCall.bm.texture_slots[1].texture.env_source = "STATIC"

\* Every visibility-region name of the texture resolves to an object whose
\* visibility-region modifier is enabled.
RegionsResolve(texture) ==
    \A i \in 1..Len(texture.vis_regions) :
        RegionExists(texture.vis_regions[i]) /\ RegionEnabled(texture.vis_regions[i])

ExportedFor(bo) ==
    SelectSeq([k \in 1..Len(materials) |-> k],
              LAMBDA k : materials[k].bo = bo /\ Len(materials[k].name) = 1)

\* C17 as stated: after any sequence of successful export_material calls,
\* get_materials(bo) returns the references that the export_material calls
\* for bo returned, all of them and in call order.
C17_GetMaterialsReturnsAll ==
    lastCall.op = "get_materials" =>
        /\ lastCall.exc = ""
        /\ lastCall.mats = ExportedFor(lastCall.bo)

\* C17, amended: for an object with at least one successful export_material
\* call, get_materials returns the references those calls returned, all of
\* them and in call order, whatever was exported for other objects or by
\* export_waveset_material; for an object without such a call it raises
\* KeyError.
C17_GetMaterialsOfExported ==
    lastCall.op = "get_materials" =>
        IF ExportedFor(lastCall.bo) # <<>>
        THEN lastCall.exc = "" /\ lastCall.mats = ExportedFor(lastCall.bo)
        ELSE lastCall.exc = "KeyError"

\* get_materials(objA) returned two references, after export_material calls
\* for objA, for objB and for objA again and a waveset material for objA.
C17_Witness ==
    /\ lastCall.op = "get_materials" /\ lastCall.bo = "objA"
    /\ Len(materials) = 4
    /\ materials[1].bo = "objA" /\ materials[2].bo = "objB"
    /\ materials[3].bo = "objA" /\ materials[3].name = <<"Mat", "WaveSet7">>
    /\ materials[4].bo = "objA"
    /\ lastCall.mats = <<1, 4>>

\* C18: export_waveset_material returns a new material with exactly one
\* layer, a new layer with kBlendAlpha set and without texture, whatever the
\* texture slots of the material are; the pending table, the alpha-test cache
\* and the per-object material lists stay as they were.
C18_WavesetOneLayer ==
    [][lastCall'.op = "export_waveset_material" =>
        /\ lastCall'.exc = ""
        /\ Len(materials') = Len(materials) + 1
        /\ lastCall'.ret = Len(materials')
        /\ Len(layers') = Len(layers) + 1
        /\ materials'[lastCall'.ret].layers = <<Len(layers')>>
        /\ "kBlendAlpha" \in layers'[Len(layers')].blendFlags
        /\ layers'[Len(layers')].texture = <<>>
        /\ \A k \in 1..Len(layers) : layers'[k] = layers[k]
        /\ pending' = pending /\ refs' = refs
        /\ alphatest' = alphatest /\ obj2mat' = obj2mat
        /\ textmaps' = textmaps /\ envmaps' = envmaps]_vars

\* A waveset material was exported from a material with an image slot while
\* the pending table held a texture; the table still holds only that one.
C18_Witness ==
    /\ lastCall.op = "export_waveset_material"
    /\ Len(lastCall.bm.texture_slots) = 1
    /\ lastCall.bm.texture_slots[1].texture.image = "imgA"
    /\ Len(pending) = 1 /\ pending[1].key.image = "imgB"
    /\ Len(materials[lastCall.ret].layers) = 1
    /\ "kBlendAlpha" \in layers[materials[lastCall.ret].layers[1]].blendFlags

\* The one slot of the material holds an image texture without image.
ImagelessSlot(bm) ==
    /\ Len(bm.texture_slots) = 1
    /\ bm.texture_slots[1].texture.type = "IMAGE"
    /\ bm.texture_slots[1].texture.image = None

\* The dynamic text maps that exist under a name for an object.
TextMapsNamed(name, bo) ==
    {i \in 1..Len(textmaps) : textmaps[i].name = name /\ textmaps[i].bo = bo}

\* C19: exporting an image texture slot without image leaves the pending
\* table as it was and points the layer at a plDynamicTextMap of visible size
\* 1024 x 1024 named after the layer: the one that exists under that name
\* for the object if there is one, a newly allocated one otherwise.
C19_ImagelessTexture ==
    [][(lastCall'.op = "export_material" /\ ImagelessSlot(lastCall'.bm)) =>
        /\ lastCall'.exc = ""
        /\ pending' = pending /\ refs' = refs
        /\ Len(layers') = Len(layers) + 1
        /\ Len(layers'[Len(layers')].texture) = 2
        /\ layers'[Len(layers')].texture[1] = "plDynamicTextMap"
        /\ LET dtm  == layers'[Len(layers')].texture[2]
               name == <<layers'[Len(layers')].name, "DynText">>
           IN  /\ dtm \in 1..Len(textmaps')
               /\ textmaps'[dtm].name = name /\ textmaps'[dtm].bo = lastCall'.bo
               /\ textmaps'[dtm].visWidth = 1024 /\ textmaps'[dtm].visHeight = 1024
               /\ IF TextMapsNamed(name, lastCall'.bo) # {}
                  THEN dtm \in TextMapsNamed(name, lastCall'.bo)
                       /\ Len(textmaps') = Len(textmaps)
                  ELSE dtm = Len(textmaps) + 1 /\ Len(textmaps') = Len(textmaps) + 1]_vars

\* Two layers of objA point at one dynamic text map and a layer of objB at
\* another, while the pending table holds the texture of an earlier slot.
C19_Witness ==
    /\ lastCall.op = "export_material" /\ ImagelessSlot(lastCall.bm)
    /\ Len(pending) = 1 /\ Len(textmaps) = 2
    /\ Cardinality({l \in 1..Len(layers) : layers[l].texture = <<"plDynamicTextMap", 1>>}) = 2
    /\ Cardinality({l \in 1..Len(layers) : layers[l].texture = <<"plDynamicTextMap", 2>>}) = 1
    /\ textmaps[1].bo # textmaps[2].bo
    /\ textmaps[1].visWidth = 1024 /\ textmaps[2].visHeight = 1024

C21_ResizeAndRestore ==
    status = "finalized" =>
        /\ \A e \in 1..Len(pending) : \A i \in 1..Len(pending[e].layers) :
              LET w == ImageFileSize(pending[e].key.image)[1]
                  h == ImageFileSize(pending[e].key.image)[2]
                  b == bitmaps[Consumer(e, i).texture[2]]
              IN  (~IsPowerOfTwo(w) \/ ~IsPowerOfTwo(h)) =>
                    /\ IsPowerOfTwo(b.width) /\ IsPowerOfTwo(b.height)
                    /\ w <= b.width /\ b.width < 2 * w
                    /\ h <= b.height /\ b.height < 2 * h
                    /\ \A l \in 1..Len(b.data) : b.data[l].size = <<b.width, b.height>>
                    /\ (w = 300 /\ h = 200) => (b.width = 512 /\ b.height = 256)
        /\ \A image \in Images : imageSize[image] = ImageFileSize(image)

\* Finalized with a pending 300 x 200 image: its bitmap is 512 x 256, its
\* levels were read at 512 x 256, and the image is 300 x 200 again.
C21_Witness ==
    /\ status = "finalized"
    /\ \E e \in 1..Len(pending) :
          /\ ImageFileSize(pending[e].key.image) = <<300, 200>>
          /\ bitmaps[Consumer(e, 1).texture[2]].width = 512
          /\ bitmaps[Consumer(e, 1).texture[2]].height = 256
          /\ bitmaps[Consumer(e, 1).texture[2]].data[1].size = <<512, 256>>
          /\ imageSize[pending[e].key.image] = <<300, 200>>

\* C22: when the run raises an export error, execute reports the error
\* message and returns CANCELLED; it returns FINISHED only when the run
\* completed without raising; and on every path that entered the run
\* (success, export error, other exception) export_active is false
\* afterwards and the selection, the active object, the scene layers and the
\* current frame are what they were when execute was invoked.
C22_ExecuteOutcome ==
    [][opResult'.op = "execute" =>
         /\ (opResult'.entered /\ lastCall'.exc = "ExportError") =>
               /\ opResult'.result = "CANCELLED"
               /\ opResult'.reports = <<<<"ERROR", "ExportError">>>>
         /\ opResult'.result = "FINISHED" =>
               (opResult'.entered /\ lastCall'.exc = "" /\ status' = "finalized")
         /\ opResult'.entered =>
               /\ export_active' = FALSE
               /\ uiState'.selection = uiState.selection
               /\ uiState'.active = uiState.active
               /\ uiState'.scene_layers = uiState.scene_layers
               /\ uiState'.frame = uiState.frame]_vars

\* An export invoked on frame 7 with objB selected and no active object
\* ended: with an export error reported and CANCELLED, with FINISHED and
\* the converter finalized, or with another exception.
C22_Witness ==
    /\ opResult.op = "execute" /\ opResult.entered
    /\ uiState.frame = 7 /\ uiState.selection = {"objB"} /\ uiState.active = None
    /\ uiState.scene_layers = "layer2"
    /\ ~export_active
    /\ lastCall.exc = "ExportError" /\ opResult.result = "CANCELLED"
    /\ Len(opResult.reports) = 1

\* The material with every action taken away.
StripActions(bm) ==
    [bm EXCEPT !.action = NoAction,
               !.texture_slots =
                   [i \in DOMAIN @ |->
                       IF Qualifies(@[i]) THEN [@[i] EXCEPT !.texture.action = NoAction]
                       ELSE @[i]]]

\* The curves _export_layer_animations gathers for qualifying slot k.
Gathered(bm, k) == LayerFCurves(bm, QualifyingSlots(bm)[k], k)

\* The roles whose sub-exporter produces a controller from the curves.
ProducedRoles(fcurves) ==
    (IF OpacityCtrl(fcurves) THEN {"opacityCtl"} ELSE {})
    \cup (IF TransformCtrl(fcurves) THEN {"transformCtl"} ELSE {})

\* C23: the layer a slot adds to its material is a wrapping animated layer
\* exactly when a sub-exporter (opacity, transform) produced a controller;
\* then one wrapper was allocated for the slot, it carries every produced
\* controller under its role and its underlying layer is the base layer.
\* Without curves, or without a controller produced from them, the layer
\* added is the base layer as it would be without any animation data, and
\* no wrapper was allocated.
C23_AnimatedLayerWrapper ==
    (lastCall.op = "export_material" /\ lastCall.exc = "") =>
        /\ \A k \in 1..Len(QualifyingSlots(lastCall.bm)) :
              LET entry == materials[1].layers[k]
                  roles == ProducedRoles(Gathered(lastCall.bm, k))
              IN  /\ (layers[entry].cls = "plLayerAnimation") <=> (roles # {})
                  /\ roles # {} =>
                        /\ layers[entry].ctrls = roles
                        /\ layers[entry].underLay \in 1..Len(layers)
                        /\ layers[layers[entry].underLay].cls = "plLayer"
                  /\ roles = {} =>
                        layers[entry] = SlotRun(StripActions(lastCall.bm), k).layers[1]
        /\ Cardinality({l \in 1..Len(layers) : layers[l].cls = "plLayerAnimation"})
             = Cardinality({k \in 1..Len(QualifyingSlots(lastCall.bm)) :
                               ProducedRoles(Gathered(lastCall.bm, k)) # {}})

\* The action whose curves are among those gathered for qualifying slot k:
\* the texture's action if it contributed a curve, else the material's.
ContributingAction(bm, k) ==
    IF HarvestFCurves(QualifyingSlots(bm)[k].texture.action, 0) # <<>>
    THEN QualifyingSlots(bm)[k].texture.action
    ELSE bm.action

\* C24: the begin and end times of an animated layer wrapper are the frame
\* range, over the scene frame rate, of an action that contributed at least
\* one curve to the gathered set: the texture's action if it contributed
\* curves, otherwise the material's; an action that contributed no curve is
\* never used for the timing.
C24_TimingFromContributingAction ==
    (lastCall.op = "export_material" /\ lastCall.exc = "") =>
        \A k \in 1..Len(QualifyingSlots(lastCall.bm)) :
            LET entry == materials[1].layers[k]
                action == ContributingAction(lastCall.bm, k)
            IN  layers[entry].cls = "plLayerAnimation" =>
                  /\ action # NoAction
                  /\ layers[entry].atc[1].begin = <<action.frame_range[1], SceneFps>>
                  /\ layers[entry].atc[1].end = <<action.frame_range[2], SceneFps>>

\* The position in bm.texture_slots of the k-th qualifying slot.
OwnIndex(bm, k) ==
    CHOOSE n \in 1..Len(bm.texture_slots) :
        /\ IsQualifying(bm.texture_slots[n])
        /\ Cardinality({m \in 1..n : IsQualifying(bm.texture_slots[m])}) = k

\* The curves of the material's action whose data path names the own
\* position of the k-th qualifying slot, followed by the curves of the
\* slot's texture.
OwnCurves(bm, k) ==
    (IF bm.action = NoAction THEN <<>>
     ELSE SelectSeq(bm.action.fcurves, LAMBDA c : c.slot = OwnIndex(bm, k)))
    \o HarvestFCurves(QualifyingSlots(bm)[k].texture.action, 0)

\* C25: the material-level curves gathered for a texture slot are exactly
\* the curves of the material's action whose data path references the
\* slot's own index in the material's texture-slot array, also when earlier
\* entries of the array were filtered out: the layer added for the slot is
\* animated by the controllers those curves (and the texture's) produce.
C25_OwnIndexCurves ==
    (lastCall.op = "export_material" /\ lastCall.exc = "") =>
        \A k \in 1..Len(QualifyingSlots(lastCall.bm)) :
            LET entry == materials[1].layers[k]
            IN  /\ Gathered(lastCall.bm, k) = OwnCurves(lastCall.bm, k)
                /\ IF ProducedRoles(OwnCurves(lastCall.bm, k)) = {}
                   THEN layers[entry].cls = "plLayer"
                   ELSE /\ layers[entry].cls = "plLayerAnimation"
                        /\ layers[entry].ctrls = ProducedRoles(OwnCurves(lastCall.bm, k))

\* The alpha-blend variants the image exporter chooses between.
AlphaVariants == {"kBlendAlpha", "kBlendAlphaAdd", "kBlendAlphaMult"}

\* The variant that matches a slot's blend type.
VariantFor(slot) ==
    IF slot.blend_type = "ADD" THEN "kBlendAlphaAdd"
    ELSE IF slot.blend_type = "MULTIPLY" THEN "kBlendAlphaMult"
    ELSE "kBlendAlpha"

\* The material with the texture of its first slot turned into one without
\* texture data, which no exporter touches.
AsNone(bm) == [bm EXCEPT !.texture_slots[1].texture.type = "NONE"]

\* The blend flags the image exporter added to the layer of the first slot
\* of the last material (the first layer allocated).
ImageSet == layers[1].blendFlags \ SlotRun(AsNone(lastCall.bm), 1).layers[1].blendFlags

\* has_alpha of lines 416-422 for a slot.
SlotHasAlpha(slot) ==
    \/ slot.texture.image = None
    \/ slot.texture.use_calculate_alpha
    \/ slot.use_stencil
    \/ ScanImageAlpha(slot.texture.image)

\* C26 as claimed: the image exporter sets an alpha-blend variant, the one
\* matching the blend type, only when the slot is not a stencil and the
\* texture requests alpha use; it sets the invert-alpha flag whenever the
\* texture requests inverted alpha; it sets the clamp flag exactly when the
\* wrap mode is clip.
C26_InvertWheneverRequested ==
    (lastCall.op = "export_material" /\ lastCall.exc = "") =>
        LET slot == lastCall.bm.texture_slots[1]
        IN  /\ ImageSet \cap AlphaVariants # {} =>
                  /\ ~slot.use_stencil /\ slot.texture.use_alpha
                  /\ ImageSet \cap AlphaVariants = {VariantFor(slot)}
            /\ slot.texture.invert_alpha => "kBlendInvertAlpha" \in layers[1].blendFlags
            /\ ("kClampTexture" \in layers[1].clampFlags) <=> (slot.texture.extension = "CLIP")

\* C26, amended: the image exporter sets an alpha-blend variant, the one
\* matching the blend type, exactly when the slot is not a stencil, the
\* texture requests alpha use and has_alpha holds; it sets the invert-alpha
\* flag exactly when the slot is not a stencil, the texture requests
\* inverted alpha and has_alpha holds; it sets the clamp flag exactly when
\* the wrap mode is clip.
C26_ImageFlags ==
    (lastCall.op = "export_material" /\ lastCall.exc = "") =>
        LET slot == lastCall.bm.texture_slots[1]
        IN  /\ ImageSet \cap AlphaVariants =
                  (IF ~slot.use_stencil /\ slot.texture.use_alpha /\ SlotHasAlpha(slot)
                   THEN {VariantFor(slot)} ELSE {})
            /\ ("kBlendInvertAlpha" \in layers[1].blendFlags)
                  <=> (~slot.use_stencil /\ slot.texture.invert_alpha /\ SlotHasAlpha(slot))
            /\ ("kClampTexture" \in layers[1].clampFlags) <=> (slot.texture.extension = "CLIP")

\* A slot that is not a stencil, on the opaque image, whose texture requests
\* alpha use, inverted alpha and clipping: its layer is clamped, the
\* exporter warned, and neither an alpha variant nor the invert flag is set.
C26_Witness ==
    /\ lastCall.op = "export_material" /\ lastCall.exc = ""
    /\ ~lastCall.bm.texture_slots[1].use_stencil
    /\ lastCall.bm.texture_slots[1].texture.image = "imgB"
    /\ lastCall.bm.texture_slots[1].texture.use_alpha
    /\ lastCall.bm.texture_slots[1].texture.invert_alpha
    /\ lastCall.bm.texture_slots[1].texture.extension = "CLIP"
    /\ layers[1].clampFlags = {"kClampTexture"}
    /\ layers[1].blendFlags \cap (AlphaVariants \cup {"kBlendInvertAlpha"}) = {}
    /\ <<"opaque", "imgB">> \in warnings

\* The calls of _test_image_alpha made for an image so far.
AlphaCallsOf(log, image) == SelectSeq(log, LAMBDA c : c.image = image)

\* C27: within a session the pixels of an image are scanned for alpha at
\* most once: after the first _test_image_alpha call for an image, whatever
\* its result, every later call for that image returns the cached result
\* without going to the pixels, and no operation removes or changes a
\* cached entry.
C27_AlphaScanOnce ==
    [][/\ \A image \in DOMAIN alphatest :
             /\ image \in DOMAIN alphatest'
             /\ alphatest'[image] = alphatest[image]
             /\ \A i \in 1..Len(alphaCalls') :
                   (i > Len(alphaCalls) /\ alphaCalls'[i].image = image)
                       => ~alphaCalls'[i].scanned
             /\ TestImageAlpha(State, image).result = alphatest[image]
             /\ TestImageAlpha(State, image).st.glHeld = glHeld
             /\ TestImageAlpha(State, image).st.alphatest = alphatest
       /\ \A image \in Images :
             /\ Len(SelectSeq(AlphaCallsOf(alphaCalls', image), LAMBDA c : c.scanned)) <= 1
             /\ \A i \in 2..Len(AlphaCallsOf(alphaCalls', image)) :
                   ~AlphaCallsOf(alphaCalls', image)[i].scanned
             /\ (status' # "raised" /\ AlphaCallsOf(alphaCalls', image) # <<>>)
                   => image \in DOMAIN alphatest']_vars

\* The alpha test ran three times: once for imgA, whose pixels hold alpha,
\* and twice for imgB, whose pixels were scanned by the first call and hold
\* none; the second call for imgB did not scan.
C27_Witness ==
    /\ Len(alphaCalls) = 3
    /\ Len(AlphaCallsOf(alphaCalls, "imgA")) = 1
    /\ Len(AlphaCallsOf(alphaCalls, "imgB")) = 2
    /\ AlphaCallsOf(alphaCalls, "imgB")[1].scanned
    /\ ~AlphaCallsOf(alphaCalls, "imgB")[2].scanned
    /\ alphatest["imgA"] /\ ~alphatest["imgB"]

\* C28: for every arrangement of stencil and other slots, also a stencil
\* directly followed by a stencil, export_material exports each qualifying
\* slot once: the advance _export_texture_slot reports equals the number of
\* slots that call exported, the material ends with as many layers as it
\* has qualifying slots, and no slot's texture is put into the pending table
\* twice.
C28_EachSlotOnce ==
    (lastCall.op = "export_material" /\ lastCall.exc = "") =>
        LET slots == QualifyingSlots(lastCall.bm)
        IN  /\ \A k \in 1..Len(slots) :
                  SlotRun(lastCall.bm, k).exc = "" =>
                     SlotRun(lastCall.bm, k).ret = Len(SlotRun(lastCall.bm, k).materials[1].layers)
            /\ slots # <<>> => Len(materials[1].layers) = Len(slots)
            /\ Len(refs) = Cardinality({k \in 1..Len(slots) :
                                          /\ slots[k].texture.type = "IMAGE"
                                          /\ slots[k].texture.image # None})

\* The dimensions of level l of the mip chain of a w x h image.
LevelSize(w, h, l) == <<Max(w \div 2^l, 1), Max(h \div 2^l, 1)>>

\* C29: for every mipmapped pending texture of power-of-two size, 1 x 1,
\* 2 x 2 and 4 x 4 included, the number of levels finalize extracts and
\* stores does not exceed floor(log2(max(w, h))) + 1, and the extracted
\* levels do not include the 2 x 2 or the 1 x 1 level of the chain.
C29_NoDegenerateLevels ==
    status = "finalized" =>
        \A e \in 1..Len(pending) : \A i \in 1..Len(pending[e].layers) :
            LET w == ImageFileSize(pending[e].key.image)[1]
                h == ImageFileSize(pending[e].key.image)[2]
                b == bitmaps[Consumer(e, i).texture[2]]
            IN  (pending[e].key.mipmap /\ IsPowerOfTwo(w) /\ IsPowerOfTwo(h)) =>
                  /\ b.numLevels <= FloorLog2(Max(w, h)) + 1
                  /\ Len(b.data) <= FloorLog2(Max(w, h)) + 1
                  /\ \A l \in 1..Len(b.data) :
                        LevelSize(w, h, b.data[l].level) \notin {<<2, 2>>, <<1, 1>>}

\* C30: whenever finalize has terminated, by returning or because mip
\* generation or level extraction raised, every image it resized to powers
\* of two has its original dimensions again.
C30_ImagesRestoredOnError ==
    lastCall.op = "finalize" =>
        \A image \in DOMAIN imageSize : imageSize[image] = ImageFileSize(image)

====
